---- MODULE Spec2Model ----
(***************************************************************************)
(* A model of the API gateway (shenekin/gateway-service): the circuit      *)
(* breaker, the rate limiter over the fast KV, the refresh-token manager   *)
(* with the /auth router, and the request pipeline of the gateway handler. *)
(* Each subsystem has its own specification over its own variables; the    *)
(* variables of the other subsystems are held at their initial values.     *)
(***************************************************************************)
EXTENDS Integers, Sequences, FiniteSets, TLC

VARIABLES
    \* ---- circuit breaker (src/app/core/circuit_breaker.py)
    circuit_breaker_enabled, \* settings.circuit_breaker_enabled
    cb,                      \* the CircuitBreaker object (its fields)
    now,                     \* time.time(), in whole seconds
    in_flight,               \* call_async invocations suspended in `await func`
    consecutive_failures,    \* history: failures observed since the last success / reset()
    episode_successes,       \* history: successes observed since HALF_OPEN was last entered
    last_event,              \* history: the last operation, the object before it, its result
    \* ---- rate limiter (src/app/middleware/rate_limit.py)
    rate_limit_enabled,      \* settings.rate_limit_enabled
    rate_limit_mysql_enabled, \* settings.rate_limit_mysql_enabled
    rate_limit_mysql_async,  \* settings.rate_limit_mysql_async
    rl_args,                 \* the limit, window_seconds and route_path the callers pass
    redis_rl,                \* fast KV: key -> [value, expire_at], live keys only
    rl_time,                 \* the clock of the fast KV and of utcnow(), in seconds
    mysql_records,           \* durable tier: the rows of rate_limit_records
    background_tasks,        \* RateLimitMiddleware._background_tasks (pending writes)
    rl_seen,                 \* history: per identifier, checks during the bucket's life
    rl_last,                 \* history: the last check_rate_limit call and its result
    \* ---- token manager and /auth router (src/app/utils/token_manager.py,
    \*      src/app/routers/auth.py)
    redis_tm,                \* fast KV: refresh_token:*, user_tokens:*, token_family:*
    tm_time,                 \* the clock of the fast KV
    revoked_once,            \* history: tokens revoked with success and not stored since
    tm_last,                 \* history: the last operation and its result
    jwt_refresh_rotation_enabled, \* settings.jwt_refresh_rotation_enabled
    jwt_refresh_expiration_days,  \* settings.jwt_refresh_expiration_days
    \* ---- request pipeline (src/app/main.py, src/gateway-service/app/bootstrap.py)
    gateway_started,         \* `import app.main` has built the application
    public_key_loaded,       \* AuthMiddleware.public_key is not None
    tracer_set,              \* TracingMiddleware.tracer is not None
    body_replay,             \* the framework replays a body read in a middleware
    circuit_breakers,        \* ProxyService.circuit_breakers: service -> breaker
    circuit_breaker_settings, \* settings.circuit_breaker_failure_threshold, _timeout_seconds, _half_open_max_calls
    gw_requests,             \* the requests that are suspended at an await of the pipeline
    gw_received,             \* history: the number of requests received so far
    gw_last,                 \* history: the last request, the steps it ran, its answer
    \* ---- retry handler (src/gateway-service/app/core/retry.py)
    retry_enabled,           \* settings.retry_enabled
    retry_handler,           \* the RetryHandler object (its fields)
    retry_last,              \* history: the last execute call, what it did, its result
    retry_calls,             \* the calls of execute_async that are suspended at an await, or have ended
    retry_time,              \* the clock of the event loop, in seconds
    \* ---- load balancer (src/gateway-service/app/core/load_balancer.py)
    load_balancer,           \* a LoadBalancer object (its fields)
    lb_history,              \* history: the select_instance calls made on it, in order
    lb_in_flight,            \* requests the handler has forwarded and not yet answered
    lb_last,                 \* history: the handler's last selection and its balancer
    \* ---- router (src/app/core/router.py, src/gateway-service/app/models/route.py)
    router,                  \* the Router object: the routes file and Router.routes
    router_last,             \* history: the last lookup and its result
    \* ---- proxy (src/app/core/proxy.py)
    proxy,                   \* ProxyService: breakers, retry handler, instances, the clock
    proxy_last,              \* history: the last forward_request and what it did
    proxy_calls,             \* the calls of forward_request that are suspended at an await
    \* ---- durable writes and their background tasks
    writers,                 \* the owners of background writes: RateLimitMiddleware, AuditLogger
    writes,                  \* the durable writes made so far, in order of creation
    writes_last,             \* the last step of a durable write
    \* ---- calls of check_rate_limit and cleanup_old_records under way
    rl_calls,                \* the calls of check_rate_limit that are suspended at an await
    rl_admitted,             \* history: per identifier, the calls allowed since INCR created the counter
    rl_cleanup,              \* the call of cleanup_old_records that is suspended at an await
    \* ---- concurrent calls through one circuit breaker
    half_open_admitted,      \* history: the calls admitted to func since HALF_OPEN was entered
    \* ---- calls of the token manager and requests to the /auth router under way
    tm_calls,                \* the calls that are suspended at a command of the fast KV or at the auth-service
    uuid_calls               \* the number of uuid.uuid4() calls made so far

cbVars == <<circuit_breaker_enabled, cb, now, in_flight, consecutive_failures,
            episode_successes, last_event>>

rlVars == <<rate_limit_enabled, rate_limit_mysql_enabled, rate_limit_mysql_async,
            rl_args, redis_rl, rl_time, mysql_records, background_tasks, rl_seen,
            rl_last, rl_calls, rl_admitted, rl_cleanup>>

\* the settings the /auth router reads; the token manager never changes them
tmSettings == <<jwt_refresh_rotation_enabled, jwt_refresh_expiration_days>>

tmVars == <<redis_tm, tm_time, revoked_once, tm_last, tm_calls, uuid_calls, tmSettings>>

gwVars == <<gateway_started, public_key_loaded, tracer_set, body_replay,
           circuit_breakers, circuit_breaker_settings, gw_requests, gw_received,
           gw_last>>

rtVars == <<retry_enabled, retry_handler, retry_last, retry_calls, retry_time>>

lbVars == <<load_balancer, lb_history, lb_in_flight, lb_last>>

routerVars == <<router, router_last>>

proxyVars == <<proxy, proxy_last, proxy_calls>>

dwVars == <<writers, writes, writes_last>>

cbcVars == <<half_open_admitted>>

vars == <<cbVars, rlVars, tmVars, gwVars, rtVars, lbVars, routerVars, proxyVars, dwVars, cbcVars>>

notCB == <<rlVars, tmVars, gwVars, rtVars, lbVars, routerVars, proxyVars, dwVars, cbcVars>>
notRL == <<cbVars, tmVars, gwVars, rtVars, lbVars, routerVars, proxyVars, dwVars, cbcVars>>
notTM == <<cbVars, rlVars, gwVars, rtVars, lbVars, routerVars, proxyVars, dwVars, cbcVars, tmSettings>>
notRT == <<cbVars, rlVars, tmVars, gwVars, lbVars, routerVars, proxyVars, dwVars, cbcVars>>
notLB == <<cbVars, rlVars, tmVars, gwVars, rtVars, routerVars, proxyVars, dwVars, cbcVars>>
notRouter == <<cbVars, rlVars, tmVars, gwVars, rtVars, lbVars, proxyVars, dwVars, cbcVars>>
notProxy == <<cbVars, rlVars, tmVars, gwVars, rtVars, lbVars, routerVars, dwVars, cbcVars>>
notDW == <<cbVars, rlVars, tmVars, gwVars, rtVars, lbVars, routerVars, proxyVars, cbcVars>>
notCBC == <<rlVars, tmVars, gwVars, rtVars, lbVars, routerVars, proxyVars, dwVars>>

----------------------------------------------------------------------------
(* Bounds of the model *)

MaxTime == 4
MaxInFlight == 1
MaxThreshold == 2
MaxTimeout == 2
MaxHalfOpen == 2
MaxLimit == 2
MaxMinutes == 1
MaxTasks == 2
MaxTokenTime == 1
MaxTTL == 1
MaxAttempts == 3
MaxSelections == 3
MaxHandlerRequests == 2
MaxProxyTime == 4
MaxInstanceFailures == 2

\* durable writes made in a run
MaxWrites == 3

\* requests that call check_rate_limit at the same time
MaxCallers == 2

\* invocations of call_async suspended in func at the same time
MaxConcurrentCalls == 2

\* requests to the auth router that run at the same time
MaxAuthRequests == 2

\* token families that uuid.uuid4() names
MaxUuids == 2

\* the seconds the clock of the gateway runs for
MaxGatewayTime == 4

\* the calls of execute_async under way at the same time, and the last second
\* of the retry handler's runs
MaxRetryCalls == 2
MaxRetryTime == 3

\* the calls of forward_request under way at the same time, and the times
\* the services file is read again
MaxProxyCalls == 2
MaxReloads == 1

\* the requests the gateway serves at the same time, and in a run
MaxGatewayRequests == 2
MaxGatewayReceived == 2

----------------------------------------------------------------------------
(* The variables of a subsystem that a specification does not exercise *)

NoRoute == ""

RLIdle ==
    /\ rate_limit_enabled = TRUE
    /\ rate_limit_mysql_enabled = FALSE
    /\ rate_limit_mysql_async = FALSE
    /\ rl_args = [limit |-> 0, window_seconds |-> 0, route_path |-> NoRoute]
    /\ redis_rl = << >>
    /\ rl_time = 0
    /\ mysql_records = {}
    /\ background_tasks = << >>
    /\ rl_seen = << >>
    /\ rl_last = [op |-> "init"]
    /\ rl_calls = << >>
    /\ rl_admitted = << >>
    /\ rl_cleanup = [pc |-> "none"]

TMIdle ==
    /\ redis_tm = [tokens |-> << >>, user_tokens |-> << >>, token_family |-> << >>]
    /\ tm_time = 0
    /\ revoked_once = {}
    /\ tm_last = [op |-> "init"]
    /\ tm_calls = << >>
    /\ uuid_calls = 0
    /\ jwt_refresh_rotation_enabled = TRUE
    /\ jwt_refresh_expiration_days = 7

\* RetryHandler() under the default settings
RTIdle ==
    /\ retry_enabled = TRUE
    /\ retry_handler = [max_attempts |-> 3, backoff_factor |-> 2,
                        max_delay_seconds |-> 10,
                        retryable_exceptions |-> {"Exception"}]
    /\ retry_last = [op |-> "init"]
    /\ retry_calls = << >>
    /\ retry_time = 0

\* no durable write is modelled
DWIdle ==
    /\ writers = [op |-> "idle"]
    /\ writes = << >>
    /\ writes_last = [op |-> "init"]

\* no concurrent call is counted
CBCIdle == half_open_admitted = 0

\* a ProxyService that has forwarded nothing yet
ProxyIdle ==
    /\ proxy = [op |-> "idle"]
    /\ proxy_last = [op |-> "init"]
    /\ proxy_calls = << >>

\* LoadBalancer() under the default settings, before any selection
LBIdle ==
    /\ load_balancer = [strategy |-> "round_robin", round_robin_counters |-> << >>,
                        connection_counts |-> << >>]
    /\ lb_history = << >>
    /\ lb_in_flight = << >>
    /\ lb_last = [op |-> "init"]

\* a Router over an empty routes file, before any lookup
RouterIdle ==
    /\ router = [file |-> << >>, routes |-> << >>]
    /\ router_last = [op |-> "init"]

\* the settings a CircuitBreaker() is made with
BreakerSettings(failure_threshold, timeout_seconds, half_open_max_calls) ==
    [failure_threshold |-> failure_threshold, timeout_seconds |-> timeout_seconds,
     half_open_max_calls |-> half_open_max_calls]

\* the defaults of settings.py
DefaultBreakerSettings == BreakerSettings(5, 60, 3)

GWIdle ==
    /\ gateway_started = FALSE
    /\ gw_requests = << >>
    /\ gw_received = 0
    /\ public_key_loaded = TRUE
    /\ tracer_set = TRUE
    /\ body_replay = TRUE
    /\ circuit_breakers = << >>
    /\ circuit_breaker_settings = DefaultBreakerSettings
    /\ gw_last = [op |-> "init"]

----------------------------------------------------------------------------
(* Circuit breaker: src/app/core/circuit_breaker.py *)

CLOSED == "closed"
OPEN == "open"
HALF_OPEN == "half_open"

\* last_failure_time = None
NoTime == 0 - 1

\* CircuitBreaker.__init__ with explicit positive arguments
CircuitBreaker(ft, ts, hm) ==
    [failure_threshold |-> ft,
     timeout_seconds |-> ts,
     half_open_max_calls |-> hm,
     state |-> CLOSED,
     failure_count |-> 0,
     success_count |-> 0,
     last_failure_time |-> NoTime,
     half_open_calls |-> 0]

\* _should_attempt_reset with `>` for `>=`
should_attempt_reset_strict(b, t) ==
    IF b.last_failure_time = NoTime
    THEN TRUE
    ELSE (t - b.last_failure_time) > b.timeout_seconds

\* CircuitBreaker._should_attempt_reset at time t
should_attempt_reset(b, t) ==
    IF b.last_failure_time = NoTime
    THEN TRUE
    ELSE (t - b.last_failure_time) >= b.timeout_seconds

\* the guard of call / call_async, where a rejection restarts the cool-off
enter_touching(b, t) ==
    IF b.state = OPEN
    THEN IF should_attempt_reset(b, t)
         THEN [rejected |-> FALSE,
               cb |-> [b EXCEPT !.state = HALF_OPEN, !.half_open_calls = 0]]
         ELSE [rejected |-> TRUE, cb |-> [b EXCEPT !.last_failure_time = t]]
    ELSE [rejected |-> FALSE, cb |-> b]

\* the guard at the head of call / call_async: OPEN either becomes HALF_OPEN
\* or the call is rejected with RuntimeError("Circuit breaker is OPEN")
enter(b, t) ==
    IF b.state = OPEN
    THEN IF should_attempt_reset(b, t)
         THEN [rejected |-> FALSE,
               cb |-> [b EXCEPT !.state = HALF_OPEN, !.half_open_calls = 0]]
         ELSE [rejected |-> TRUE, cb |-> b]
    ELSE [rejected |-> FALSE, cb |-> b]

\* CircuitBreaker._on_success
on_success(b) ==
    IF b.state = HALF_OPEN
    THEN LET b1 == [b EXCEPT !.success_count = @ + 1, !.half_open_calls = @ + 1]
         IN  IF b1.success_count >= b1.half_open_max_calls
             THEN [b1 EXCEPT !.state = CLOSED, !.failure_count = 0,
                             !.success_count = 0, !.half_open_calls = 0]
             ELSE b1
    ELSE [b EXCEPT !.failure_count = 0]

\* _on_failure opening only above the threshold (`>` for `>=`)
on_failure_above(b, t) ==
    LET b1 == [b EXCEPT !.failure_count = @ + 1, !.last_failure_time = t]
    IN  IF b1.state = HALF_OPEN
        THEN [b1 EXCEPT !.state = OPEN, !.half_open_calls = 0]
        ELSE IF b1.failure_count > b1.failure_threshold
             THEN [b1 EXCEPT !.state = OPEN]
             ELSE b1

\* _on_failure that forgets to clear half_open_calls when it re-opens
on_failure_keep_calls(b, t) ==
    LET b1 == [b EXCEPT !.failure_count = @ + 1, !.last_failure_time = t]
    IN  IF b1.state = HALF_OPEN
        THEN [b1 EXCEPT !.state = OPEN]
        ELSE IF b1.failure_count >= b1.failure_threshold
             THEN [b1 EXCEPT !.state = OPEN]
             ELSE b1

\* the failure handler the breaker uses; CircuitBreaker._on_failure at time t
on_failure(b, t) ==
    LET b1 == [b EXCEPT !.failure_count = @ + 1, !.last_failure_time = t]
    IN  IF b1.state = HALF_OPEN
        THEN [b1 EXCEPT !.state = OPEN, !.half_open_calls = 0]
        ELSE IF b1.failure_count >= b1.failure_threshold
             THEN [b1 EXCEPT !.state = OPEN]
             ELSE b1

\* CircuitBreaker.reset
reset(b) ==
    [b EXCEPT !.state = CLOSED, !.failure_count = 0, !.success_count = 0,
              !.half_open_calls = 0, !.last_failure_time = NoTime]

\* the try/except around func: _on_success on return, _on_failure on an
\* Exception; a BaseException (asyncio.CancelledError) passes through untouched
settle(b, t, outcome) ==
    CASE outcome = "success" -> on_success(b)
      [] outcome = "failure" -> on_failure(b, t)
      [] OTHER -> b

\* handled_in: the state in which the outcome of the call was handled
Event(op, result, handled_in) ==
    [op |-> op, result |-> result, handled_in |-> handled_in, before |-> cb,
     at |-> now, in_flight |-> in_flight]

\* history of the failures in a row and of the successes of the HALF_OPEN episode
Observe(b0, b1, outcome) ==
    /\ consecutive_failures' =
          CASE outcome = "failure" -> consecutive_failures + 1
            [] outcome = "success" -> 0
            [] OTHER -> consecutive_failures
    /\ episode_successes' =
          CASE b0.state = OPEN /\ b1.state = HALF_OPEN -> 0
            [] outcome = "success" /\ b0.state = HALF_OPEN -> episode_successes + 1
            [] OTHER -> episode_successes

CBInit ==
    /\ CBCIdle
    /\ DWIdle
    /\ ProxyIdle
    /\ RLIdle
    /\ TMIdle
    /\ GWIdle
    /\ RTIdle
    /\ LBIdle
    /\ RouterIdle
    /\ circuit_breaker_enabled \in BOOLEAN
    /\ \E ft \in 1..MaxThreshold, ts \in 1..MaxTimeout, hm \in 1..MaxHalfOpen :
          cb = CircuitBreaker(ft, ts, hm)
    /\ now = 0
    /\ in_flight = 0
    /\ consecutive_failures = 0
    /\ episode_successes = 0
    /\ last_event = [op |-> "init", result |-> "none", handled_in |-> "none",
                     before |-> cb, at |-> 0, in_flight |-> 0]

\* CircuitBreaker.call(func): synchronous, func returns or raises an Exception
Call(outcome) ==
    /\ UNCHANGED <<circuit_breaker_enabled, now, in_flight>>
    /\ UNCHANGED notCB
    /\ IF ~circuit_breaker_enabled
       THEN /\ cb' = cb
            /\ last_event' = Event("call", outcome, "none")
            /\ UNCHANGED <<consecutive_failures, episode_successes>>
       ELSE LET e == enter(cb, now)
            IN  IF e.rejected
                THEN /\ cb' = e.cb
                     /\ last_event' = Event("call", "rejected", "none")
                     /\ UNCHANGED <<consecutive_failures, episode_successes>>
                ELSE /\ cb' = settle(e.cb, now, outcome)
                     /\ last_event' = Event("call", outcome, e.cb.state)
                     /\ consecutive_failures' =
                           (IF outcome = "failure" THEN consecutive_failures + 1 ELSE 0)
                     /\ episode_successes' =
                           (IF cb.state = OPEN
                            THEN (IF outcome = "success" THEN 1 ELSE 0)
                            ELSE IF outcome = "success" /\ cb.state = HALF_OPEN
                                 THEN episode_successes + 1
                                 ELSE episode_successes)

\* CircuitBreaker.call_async(func) up to `await func(...)`
CallAsyncBegin ==
    /\ in_flight < MaxInFlight
    /\ UNCHANGED <<circuit_breaker_enabled, now>>
    /\ UNCHANGED notCB
    /\ IF ~circuit_breaker_enabled
       THEN /\ cb' = cb
            /\ in_flight' = in_flight + 1
            /\ last_event' = Event("call_async", "admitted", "none")
            /\ UNCHANGED <<consecutive_failures, episode_successes>>
       ELSE LET e == enter(cb, now)
            IN  /\ cb' = e.cb
                /\ in_flight' = (IF e.rejected THEN in_flight ELSE in_flight + 1)
                /\ last_event' =
                      Event("call_async", IF e.rejected THEN "rejected" ELSE "admitted", "none")
                /\ Observe(cb, e.cb, "none")

\* CircuitBreaker.call_async(func) from the completion of `await func(...)`
CallAsyncEnd(outcome) ==
    /\ in_flight > 0
    /\ in_flight' = in_flight - 1
    /\ UNCHANGED <<circuit_breaker_enabled, now>>
    /\ UNCHANGED notCB
    /\ last_event' = Event("call_async_end", outcome, cb.state)
    /\ IF ~circuit_breaker_enabled
       THEN /\ cb' = cb
            /\ UNCHANGED <<consecutive_failures, episode_successes>>
       ELSE /\ cb' = settle(cb, now, outcome)
            /\ Observe(cb, cb', outcome)

\* CircuitBreaker.reset()
Reset ==
    /\ cb' = reset(cb)
    /\ last_event' = Event("reset", "none", "none")
    /\ consecutive_failures' = 0
    /\ UNCHANGED <<circuit_breaker_enabled, now, in_flight, episode_successes>>
    /\ UNCHANGED notCB

\* one second passes
Tick ==
    /\ now < MaxTime
    /\ now' = now + 1
    /\ UNCHANGED <<circuit_breaker_enabled, cb, in_flight, consecutive_failures,
                   episode_successes, last_event>>
    /\ UNCHANGED notCB

CBNext ==
    \/ \E outcome \in {"success", "failure"} : Call(outcome)
    \/ CallAsyncBegin
    \/ \E outcome \in {"success", "failure", "cancelled"} : CallAsyncEnd(outcome)
    \/ Reset
    \/ Tick

SpecCB == CBInit /\ [][CBNext]_vars

----------------------------------------------------------------------------
(* Claims about the circuit breaker, checked under SpecCB *)

CallOps == {"call", "call_async"}
SettleOps == {"call", "call_async_end"}

\* the breaker was in state st when the last call's outcome was handled
SettledFrom(st, outcome) ==
    /\ circuit_breaker_enabled
    /\ last_event.op \in SettleOps
    /\ last_event.result = outcome
    /\ last_event.handled_in = st

\* C1: with the breaker enabled, a failure handled while CLOSED opens the
\* breaker exactly when it is the failure_threshold-th failure in a row (no
\* success, no reset() in between) and otherwise leaves it CLOSED; a success
\* handled while CLOSED leaves it CLOSED with failure_count = 0.
C1_OpensAtThreshold ==
    /\ SettledFrom(CLOSED, "failure") =>
          IF consecutive_failures >= cb.failure_threshold
          THEN cb.state = OPEN /\ consecutive_failures = cb.failure_threshold
          ELSE cb.state = CLOSED
    /\ SettledFrom(CLOSED, "success") =>
          cb.state = CLOSED /\ cb.failure_count = 0
    /\ (circuit_breaker_enabled /\ cb.state = CLOSED) =>
          /\ consecutive_failures < cb.failure_threshold
          /\ cb.failure_count = consecutive_failures

C1_Witness ==
    /\ SettledFrom(CLOSED, "failure")
    /\ cb.failure_threshold = 2
    /\ consecutive_failures = 2
    /\ cb.state = OPEN

\* the last call arrived at an OPEN breaker before its cool-off had elapsed
ArrivedDuringCoolOff ==
    /\ circuit_breaker_enabled
    /\ last_event.op \in CallOps
    /\ last_event.before.state = OPEN
    /\ last_event.at - last_event.before.last_failure_time
          < last_event.before.timeout_seconds

\* C2: a call or call_async arriving while the breaker is OPEN and fewer than
\* timeout_seconds have passed since last_failure_time is rejected, the wrapped
\* function is not invoked, and every field of the breaker is left as it was.
C2_RejectedWhileOpen ==
    ArrivedDuringCoolOff =>
       /\ last_event.result = "rejected"
       /\ cb = last_event.before
       /\ in_flight = last_event.in_flight

C2_Witness ==
    /\ ArrivedDuringCoolOff
    /\ last_event.result = "rejected"
    /\ last_event.at > last_event.before.last_failure_time
    /\ now > last_event.at

\* the last call arrived at an OPEN breaker whose cool-off had elapsed
ArrivedAfterCoolOff ==
    /\ circuit_breaker_enabled
    /\ last_event.op \in CallOps
    /\ last_event.before.state = OPEN
    /\ last_event.at - last_event.before.last_failure_time
          >= last_event.before.timeout_seconds

\* C3: the breaker leaves OPEN only in a step of call, call_async or reset();
\* a call arriving once timeout_seconds have elapsed is not rejected: call_async
\* sets HALF_OPEN with half_open_calls = 0 and invokes the function, call sets
\* HALF_OPEN and handles the function's outcome from there; a step in which
\* only time passes leaves the breaker as it is.
C3_HalfOpenOnNextCall ==
    /\ [](ArrivedAfterCoolOff =>
            /\ last_event.result # "rejected"
            /\ last_event.op = "call_async" =>
                  /\ cb.state = HALF_OPEN
                  /\ cb.half_open_calls = 0
                  /\ in_flight = last_event.in_flight + 1
            /\ last_event.op = "call" =>
                  cb = settle([last_event.before EXCEPT !.state = HALF_OPEN,
                                                        !.half_open_calls = 0],
                              last_event.at, last_event.result))
    /\ [][(cb.state = OPEN /\ cb'.state # OPEN) =>
             (last_event'.op \in (CallOps \cup {"reset"}) /\ now' = now)]_vars
    /\ [][now' # now => cb' = cb]_vars

C3_Witness ==
    /\ ArrivedAfterCoolOff
    /\ last_event.op = "call_async"
    /\ last_event.at - last_event.before.last_failure_time
          = last_event.before.timeout_seconds
    /\ cb.state = HALF_OPEN
    /\ in_flight = last_event.in_flight + 1

\* C4: a success handled while HALF_OPEN closes the breaker exactly when it is
\* the half_open_max_calls-th success of the current HALF_OPEN episode, and
\* otherwise leaves it HALF_OPEN; on closing, failure_count, success_count and
\* half_open_calls are 0.
C4_ClosesAfterMaxSuccesses ==
    SettledFrom(HALF_OPEN, "success") =>
       IF episode_successes >= cb.half_open_max_calls
       THEN /\ cb.state = CLOSED
            /\ cb.failure_count = 0
            /\ cb.success_count = 0
            /\ cb.half_open_calls = 0
       ELSE cb.state = HALF_OPEN

\* C5: a failure handled while HALF_OPEN leaves the breaker OPEN with
\* half_open_calls = 0 and last_failure_time the time of that failure, and
\* for the next timeout_seconds a call is rejected.
C5_HalfOpenFailureReopens ==
    SettledFrom(HALF_OPEN, "failure") =>
       /\ cb.state = OPEN
       /\ cb.half_open_calls = 0
       /\ cb.last_failure_time = last_event.at
       /\ (now - last_event.at < cb.timeout_seconds) => enter(cb, now).rejected

C5_Witness ==
    /\ SettledFrom(HALF_OPEN, "failure")
    /\ last_event.before.half_open_calls > 0
    /\ now > last_event.at
    /\ now - last_event.at < cb.timeout_seconds
    /\ cb.state = OPEN

----------------------------------------------------------------------------
(* Rate limiter: src/app/middleware/rate_limit.py *)

CBIdle ==
    /\ circuit_breaker_enabled = TRUE
    /\ cb = CircuitBreaker(1, 1, 1)
    /\ now = 0
    /\ in_flight = 0
    /\ consecutive_failures = 0
    /\ episode_successes = 0
    /\ last_event = [op |-> "init", result |-> "none", handled_in |-> "none",
                     before |-> cb, at |-> 0, in_flight |-> 0]

SecondsPerMinute == 60
SecondsPerHour == 3600
SecondsPerDay == 86400

\* a missing key (GET returns None); a key without TTL
Nil == 0 - 1

Identifiers == {"login:alice", "login:bob"}

Max(a, b) == IF a >= b THEN a ELSE b
Min(a, b) == IF a <= b THEN a ELSE b

\* window = "minute" if window_seconds == 60 else "hour" if ... == 3600 else "day"
window_name(window_seconds) ==
    IF window_seconds = SecondsPerMinute THEN "minute"
    ELSE IF window_seconds = SecondsPerHour THEN "hour"
    ELSE "day"

\* a key that leaves the identifier out
get_rate_limit_key_shared(identifier, window, route_path) == <<"rate_limit", window>>

\* RateLimitMiddleware._get_rate_limit_key: the parts joined by ":"
get_rate_limit_key(identifier, window, route_path) ==
    IF route_path # NoRoute
    THEN <<"rate_limit", identifier, window, route_path>>
    ELSE <<"rate_limit", identifier, window>>

\* Redis GET / INCR / EXPIRE on the live keys
redis_get(kv, key) ==
    IF key \in DOMAIN kv THEN kv[key].value ELSE Nil

redis_incr(kv, key) ==
    IF key \in DOMAIN kv
    THEN [kv EXCEPT ![key].value = @ + 1]
    ELSE [k \in DOMAIN kv \cup {key} |->
             IF k = key THEN [value |-> 1, expire_at |-> Nil] ELSE kv[k]]

redis_expire(kv, key, seconds, t) ==
    IF key \in DOMAIN kv
    THEN [kv EXCEPT ![key].expire_at = t + seconds]
    ELSE kv

\* Redis drops a key once its TTL has run out
redis_purge(kv, t) ==
    LET live == {k \in DOMAIN kv : kv[k].expire_at = Nil \/ t < kv[k].expire_at}
    IN  [k \in live |-> kv[k]]

\* the limit test with `>` for `>=`
over_limit_above(count, limit) == count > limit

\* `if count >= limit`
over_limit(count, limit) == count >= limit

\* an exception handler that denies the request
fail_closed(kv, limit) ==
    [allowed |-> FALSE, remaining |-> 0, kv |-> kv, failed |-> TRUE, store |-> Nil]

\* `except Exception: return True, limit`
fail_open(kv, limit) ==
    [allowed |-> TRUE, remaining |-> limit, kv |-> kv, failed |-> TRUE, store |-> Nil]

\* the faults of the fast KV during one check: none; the GET raises; the
\* pipeline raises with nothing executed; the pipeline raises after MULTI/EXEC
\* has run (the reply is lost)
Faults == {"none", "get", "pipe_lost", "pipe_applied"}

\* `count = int(current) if current else 0`
count_of(current) == IF current # Nil THEN current ELSE 0

\* check_rate_limit from the reply of `await self.redis_client.get(key)` to
\* its next await: a raising GET fails open, a count at the limit is denied
\* and handed to the durable tier, a lower one goes on to the pipeline
check_rate_limit_get(kv, identifier, limit, window_seconds, route_path, fault) ==
    LET window == window_name(window_seconds)
        key == get_rate_limit_key(identifier, window, route_path)
        count == count_of(redis_get(kv, key))
    IN  IF fault = "get" THEN [next |-> "return", r |-> fail_open(kv, limit)]
        ELSE IF over_limit(count, limit)
        THEN [next |-> "return",
              r |-> [allowed |-> FALSE, remaining |-> 0, kv |-> kv, failed |-> FALSE,
                     store |-> count]]
        ELSE [next |-> "pipeline",
              r |-> [allowed |-> TRUE, remaining |-> limit, kv |-> kv, failed |-> FALSE,
                     store |-> Nil]]

\* check_rate_limit from the reply of `await pipe.execute()` (INCR, EXPIRE) at
\* time t to its next await
check_rate_limit_pipeline(kv, t, identifier, limit, window_seconds, route_path, fault) ==
    LET window == window_name(window_seconds)
        key == get_rate_limit_key(identifier, window, route_path)
        kv1 == redis_expire(redis_incr(kv, key), key, window_seconds, t)
        new_count == kv1[key].value
    IN  IF fault = "pipe_lost" THEN fail_open(kv, limit)
        ELSE IF fault = "pipe_applied" THEN fail_open(kv1, limit)
        ELSE [allowed |-> TRUE, remaining |-> Max(0, limit - new_count), kv |-> kv1,
              failed |-> FALSE, store |-> new_count]

\* RateLimitMiddleware.check_rate_limit with rate limiting enabled, run at time
\* t with no other call in between: the answer, the fast KV afterwards, and the
\* count handed to the durable tier
check_rate_limit(kv, t, identifier, limit, window_seconds, route_path, fault) ==
    LET g == check_rate_limit_get(kv, identifier, limit, window_seconds, route_path,
                                  fault)
    IN  IF g.next = "pipeline"
        THEN check_rate_limit_pipeline(kv, t, identifier, limit, window_seconds,
                                       route_path, fault)
        ELSE g.r

\* the outcomes of a durable-tier write: the row is stored; the connection
\* fails and store_rate_limit_record returns False; an exception is raised
\* on the connection
DurableOutcomes == {"success", "connection_failure", "exception"}

\* the check made no durable write; the write is a background task
NoWrite == "none"
Scheduled == "scheduled"

\* a durable write whose exception reaches check_rate_limit
store_raises_through(outcome) == outcome = "exception"

\* _store_rate_limit_record_async lets no exception out: the handler around
\* the write and the one around the whole body catch them all
store_raises(outcome) == FALSE

\* check_rate_limit with the durable tier on, given the answer r of the fast
\* tier: the denied branch awaits the durable write under the outer try alone,
\* the allowed branch under a try of its own
check_rate_limit_durable(r, kv, limit, mysql_enabled, outcome) ==
    IF mysql_enabled /\ r.store # Nil /\ ~r.allowed /\ store_raises(outcome)
    THEN fail_open(kv, limit)
    ELSE r

\* window_start of _store_rate_limit_record_async: utcnow() truncated to the
\* minute, the hour or the day
window_start(t, window) ==
    LET unit == IF window = "minute" THEN SecondsPerMinute
                ELSE IF window = "hour" THEN SecondsPerHour
                ELSE SecondsPerDay
    IN  t - (t % unit)

\* the row _store_rate_limit_record_async builds at time t
rate_limit_record(t, identifier, window_seconds, route_path, request_count) ==
    LET window == window_name(window_seconds)
    IN  [identifier |-> identifier, window_type |-> window, route_path |-> route_path,
         window_start |-> window_start(t, window),
         window_end |-> window_start(t, window) + window_seconds,
         request_count |-> request_count]

\* RateLimitStorage.store_rate_limit_record: upsert on
\* (identifier, window_type, route_path, window_start)
upsert(rows, r) ==
    {x \in rows : ~(/\ x.identifier = r.identifier
                    /\ x.window_type = r.window_type
                    /\ x.route_path = r.route_path
                    /\ x.window_start = r.window_start)} \cup {r}

\* where a durable write can fail: asyncmy.connect, conn.cursor(),
\* cursor.execute, conn.commit
NoWriteFault == "none"
WriteFaults == {NoWriteFault, "connect", "cursor", "execute", "commit"}

\* the faults that can strike when the write resumes from the await it is
\* suspended at
faults_at(pc) ==
    IF pc = "connect" THEN {NoWriteFault, "connect", "cursor"}
    ELSE IF pc = "execute" THEN {NoWriteFault, "execute"}
    ELSE IF pc = "commit" THEN {NoWriteFault, "commit"}
    ELSE {NoWriteFault}

\* _get_connection of both writers: the connection, or None when
\* asyncmy.connect raises
get_connection(fault) == fault # "connect"

\* a durable write that is suspended at asyncmy.connect
NewWrite(row) ==
    [pc |-> "connect", row |-> row, connection |-> "none", outcome |-> "pending"]

\* no durable write
NoWriteProcess ==
    [pc |-> "none", row |-> Nil, connection |-> "none", outcome |-> NoWrite]

\* RateLimitStorage.store_rate_limit_record and cleanup_old_records from one
\* await to the next (asyncmy.connect, cursor.execute, conn.commit,
\* conn.rollback): no connection returns at once; an exception is rolled back;
\* the finally clause closes the connection
RateLimitStorage_step(w, fault) ==
    IF w.pc = "connect"
    THEN IF ~get_connection(fault)
         THEN [w EXCEPT !.pc = "done", !.outcome = "connection_failure"]
         ELSE IF fault = "cursor"
         THEN [w EXCEPT !.pc = "rollback", !.connection = "open"]
         ELSE [w EXCEPT !.pc = "execute", !.connection = "open"]
    ELSE IF w.pc = "execute"
    THEN IF fault = "execute" THEN [w EXCEPT !.pc = "rollback"]
         ELSE [w EXCEPT !.pc = "commit"]
    ELSE IF w.pc = "commit"
    THEN IF fault = "commit" THEN [w EXCEPT !.pc = "rollback"]
         ELSE [w EXCEPT !.pc = "done", !.connection = "closed", !.outcome = "success"]
    ELSE IF w.pc = "rollback"
    THEN [w EXCEPT !.pc = "done", !.connection = "closed", !.outcome = "exception"]
    ELSE w

\* store_log_with_error_handling of AuditLogger._store_audit_log_async from
\* one await to the next: no connection returns; conn.close() follows the
\* cursor block inside the try; the except clause logs and closes nothing
AuditLogger_step(w, fault) ==
    IF w.pc = "connect"
    THEN IF ~get_connection(fault)
         THEN [w EXCEPT !.pc = "done", !.outcome = "connection_failure"]
         ELSE IF fault = "cursor"
         THEN [w EXCEPT !.pc = "done", !.connection = "open", !.outcome = "exception"]
         ELSE [w EXCEPT !.pc = "execute", !.connection = "open"]
    ELSE IF w.pc = "execute"
    THEN IF fault = "execute"
         THEN [w EXCEPT !.pc = "done", !.outcome = "exception"]
         ELSE [w EXCEPT !.pc = "commit"]
    ELSE IF w.pc = "commit"
    THEN IF fault = "commit"
         THEN [w EXCEPT !.pc = "done", !.outcome = "exception"]
         ELSE [w EXCEPT !.pc = "done", !.connection = "closed", !.outcome = "success"]
    ELSE w

\* the step in which conn.commit() succeeds
committed(w, w1) == w.pc = "commit" /\ w1.outcome = "success"

\* DELETE FROM rate_limit_records WHERE window_end < cutoff_date
cleanup_old_records(rows, cutoff) == {x \in rows : ~(x.window_end < cutoff)}

\* the identifier all concurrent callers are limited by
SharedIdentifier == "login:alice"

\* the requests that call check_rate_limit at the same time
Callers == 1..MaxCallers

\* the background tasks alive at the same time
TaskIds == 1..MaxTasks

\* a request that is not inside check_rate_limit
IdleCall ==
    [pc |-> "idle", identifier |-> "", before |-> Nil, count_after |-> Nil,
     allowed |-> FALSE, remaining |-> 0, failed |-> FALSE, store |-> Nil,
     ordinal |-> 0, clean |-> FALSE, write |-> NoWriteProcess]

\* no cleanup_old_records is running
NoCleanup == [pc |-> "none", days |-> 0, cutoff |-> 0, connection |-> "none"]

\* the settings and the arguments of a run; the fast KV starts empty
RLSetup(mysql_enabled, mysql_async, limits, windows, routes, numbered, counted) ==
    /\ CBCIdle
    /\ DWIdle
    /\ ProxyIdle
    /\ CBIdle
    /\ TMIdle
    /\ GWIdle
    /\ RTIdle
    /\ LBIdle
    /\ RouterIdle
    /\ rate_limit_enabled \in BOOLEAN
    /\ rate_limit_mysql_enabled \in mysql_enabled
    /\ rate_limit_mysql_async \in mysql_async
    /\ \E l \in limits, w \in windows, r \in routes :
          rl_args = [limit |-> l, window_seconds |-> w, route_path |-> r]
    /\ redis_rl = << >>
    /\ rl_time = 0
    /\ mysql_records = {}
    /\ background_tasks = << >>
    /\ rl_seen = [i \in numbered |-> [calls |-> 0, clean |-> TRUE]]
    /\ rl_last = [op |-> "init"]
    /\ rl_calls = [c \in Callers |-> IdleCall]
    /\ rl_admitted = [i \in counted |-> 0]
    /\ rl_cleanup = NoCleanup

\* RATE_LIMIT_MYSQL_ENABLED=false: the fast tier alone
RLInit ==
    RLSetup({FALSE}, {FALSE}, 0..MaxLimit, {SecondsPerMinute, SecondsPerHour},
            {"/auth/login"}, Identifiers, {})

\* RATE_LIMIT_MYSQL_ENABLED=true, synchronous or asynchronous durable writes
RLDurableInit ==
    /\ RLSetup({TRUE}, BOOLEAN, 0..MaxLimit, {SecondsPerMinute}, {"/auth/login"}, {}, {})
    /\ rate_limit_enabled

\* what the rate limiter never changes
rlSettings == <<rate_limit_enabled, rate_limit_mysql_enabled, rate_limit_mysql_async,
                rl_args>>

\* the key of an identifier under the arguments of the run
BucketKey(identifier) ==
    get_rate_limit_key(identifier, window_name(rl_args.window_seconds),
                       rl_args.route_path)

\* the slot a new call or a new task takes
free_slot(slots, busy) ==
    IF slots \ busy = {} THEN 0
    ELSE CHOOSE s \in slots \ busy : \A o \in slots \ busy : s <= o

\* self._background_tasks.add(task)
add_task(tasks, n, task) ==
    [m \in DOMAIN tasks \cup {n} |-> IF m = n THEN task ELSE tasks[m]]

\* a done callback that leaves the set as it is
discard_nothing(tasks, t) == tasks

\* set.discard
discard(tasks, t) == tasks \ {t}

\* remove_task, the done callback of a rate-limit task
remove_task(tasks, n) == [m \in discard(DOMAIN tasks, n) |-> tasks[m]]

\* the answer check_rate_limit returns to caller c
Returned(c, call, r, outcome, at) ==
    [op |-> "check", at |-> at, caller |-> c, identifier |-> call.identifier,
     allowed |-> r.allowed, remaining |-> r.remaining, failed |-> r.failed,
     count_before |-> call.before, count_after |-> call.count_after,
     durable_outcome |-> outcome,
     fast_tier |-> <<call.allowed, call.remaining>>,
     ordinal |-> call.ordinal, clean |-> call.clean]

\* caller c has the answer r of the fast tier, after its GET or its pipeline:
\* without durable tier the call returns; with it the row is built and the
\* write is awaited, or made a background task while the call returns
FastTierAnswered(c, identifier, before, disturbed, fault, r, at) ==
    LET key == BucketKey(identifier)
        ok == fault = "none" /\ ~disturbed
        seen == IF \/ identifier \notin DOMAIN rl_seen
                   \/ ~ok
                   \/ (before # Nil /\ ~rl_seen[identifier].clean)
                THEN [calls |-> 0, clean |-> FALSE]
                ELSE IF before = Nil THEN [calls |-> 1, clean |-> TRUE]
                ELSE [calls |-> Min(rl_seen[identifier].calls + 1, rl_args.limit + 2),
                      clean |-> TRUE]
        call == [pc |-> "write", identifier |-> identifier, before |-> before,
                 count_after |-> redis_get(r.kv, key), allowed |-> r.allowed,
                 remaining |-> r.remaining, failed |-> r.failed, store |-> r.store,
                 ordinal |-> seen.calls, clean |-> seen.clean,
                 write |-> NoWriteProcess]
        row == rate_limit_record(rl_time, identifier, rl_args.window_seconds,
                                 rl_args.route_path, r.store)
        durable == rate_limit_mysql_enabled /\ r.store # Nil
        n == free_slot(TaskIds, DOMAIN background_tasks)
    IN  /\ redis_rl' = r.kv
        /\ rl_seen' = [i \in DOMAIN rl_seen |-> IF i = identifier THEN seen ELSE rl_seen[i]]
        /\ rl_admitted' = [i \in DOMAIN rl_admitted |->
              IF i = identifier /\ at = "pipeline" /\ ~r.failed
              THEN (IF redis_get(redis_rl, key) = Nil THEN 1 ELSE rl_admitted[i] + 1)
              ELSE rl_admitted[i]]
        /\ IF ~durable
           THEN /\ rl_last' = Returned(c, call, r, NoWrite, at)
                /\ rl_calls' = [rl_calls EXCEPT ![c] = IdleCall]
                /\ UNCHANGED background_tasks
           ELSE IF rate_limit_mysql_async
           THEN /\ n # 0
                /\ background_tasks' = add_task(background_tasks, n, NewWrite(row))
                /\ rl_last' = Returned(c, call, r, Scheduled, at)
                /\ rl_calls' = [rl_calls EXCEPT ![c] = IdleCall]
           ELSE /\ rl_calls' = [rl_calls EXCEPT ![c] = [call EXCEPT !.write = NewWrite(row)]]
                /\ rl_last' = [op |-> at, caller |-> c, identifier |-> identifier]
                /\ UNCHANGED background_tasks

\* a request enters check_rate_limit(identifier, limit, window_seconds,
\* route_path) and its GET is answered
CheckGet(c, identifier, fault) ==
    LET before == redis_get(redis_rl, BucketKey(identifier))
        g == check_rate_limit_get(redis_rl, identifier, rl_args.limit,
                                  rl_args.window_seconds, rl_args.route_path, fault)
    IN  /\ c = free_slot(Callers, {o \in Callers : rl_calls[o].pc # "idle"})
        /\ UNCHANGED notRL
        /\ UNCHANGED <<rlSettings, rl_time, mysql_records, rl_cleanup>>
        /\ IF ~rate_limit_enabled
           THEN /\ fault = "none"
                /\ rl_last' = [op |-> "check", at |-> "disabled", caller |-> c,
                               identifier |-> identifier,
                               allowed |-> TRUE, remaining |-> rl_args.limit,
                               failed |-> FALSE,
                               count_before |-> before, count_after |-> before,
                               durable_outcome |-> NoWrite,
                               fast_tier |-> <<TRUE, rl_args.limit>>,
                               ordinal |-> 0, clean |-> FALSE]
                /\ UNCHANGED <<redis_rl, background_tasks, rl_seen, rl_calls,
                               rl_admitted>>
           ELSE IF g.next = "pipeline"
           THEN /\ rl_calls' = [rl_calls EXCEPT ![c] =
                      [IdleCall EXCEPT !.pc = "pipeline", !.identifier = identifier,
                                       !.before = before]]
                /\ rl_last' = [op |-> "get", caller |-> c, identifier |-> identifier]
                /\ UNCHANGED <<redis_rl, background_tasks, rl_seen, rl_admitted>>
           ELSE FastTierAnswered(c, identifier, before, FALSE, fault, g.r, "get")

\* the pipeline of caller c (INCR, EXPIRE) is answered
CheckPipeline(c, fault) ==
    LET call == rl_calls[c]
        p == check_rate_limit_pipeline(redis_rl, rl_time, call.identifier,
                                       rl_args.limit, rl_args.window_seconds,
                                       rl_args.route_path, fault)
        disturbed == redis_get(redis_rl, BucketKey(call.identifier)) # call.before
    IN  /\ call.pc = "pipeline"
        /\ UNCHANGED notRL
        /\ UNCHANGED <<rlSettings, rl_time, mysql_records, rl_cleanup>>
        /\ FastTierAnswered(c, call.identifier, call.before, disturbed, fault, p,
                            "pipeline")

\* the durable write awaited by caller c resumes from its await; when it has
\* ended, check_rate_limit returns
CheckWrite(c, fault) ==
    LET call == rl_calls[c]
        w == RateLimitStorage_step(call.write, fault)
        fast == [allowed |-> call.allowed, remaining |-> call.remaining,
                 failed |-> call.failed, store |-> call.store, kv |-> redis_rl]
        r == check_rate_limit_durable(fast, redis_rl, rl_args.limit,
                                      rate_limit_mysql_enabled, w.outcome)
    IN  /\ call.pc = "write"
        /\ fault \in faults_at(call.write.pc)
        /\ mysql_records' = (IF committed(call.write, w)
                             THEN upsert(mysql_records, w.row) ELSE mysql_records)
        /\ IF w.pc = "done"
           THEN /\ rl_last' = Returned(c, call, r, w.outcome, "write")
                /\ rl_calls' = [rl_calls EXCEPT ![c] = IdleCall]
           ELSE /\ rl_last' = [op |-> "write", caller |-> c,
                               identifier |-> call.identifier]
                /\ rl_calls' = [rl_calls EXCEPT ![c].write = w]
        /\ UNCHANGED notRL
        /\ UNCHANGED <<rlSettings, redis_rl, rl_time, background_tasks, rl_seen,
                       rl_admitted, rl_cleanup>>

\* background task n resumes from its await; when the write has ended the task
\* is done and its done callback is scheduled
TaskStep(n, fault) ==
    LET w == RateLimitStorage_step(background_tasks[n], fault)
    IN  /\ n \in DOMAIN background_tasks
        /\ background_tasks[n].pc # "done"
        /\ fault \in faults_at(background_tasks[n].pc)
        /\ background_tasks' = [background_tasks EXCEPT ![n] = w]
        /\ mysql_records' = (IF committed(background_tasks[n], w)
                             THEN upsert(mysql_records, w.row) ELSE mysql_records)
        /\ rl_last' = [op |-> "task", task |-> n]
        /\ UNCHANGED notRL
        /\ UNCHANGED <<rlSettings, redis_rl, rl_time, rl_seen, rl_calls, rl_admitted,
                       rl_cleanup>>

\* the event loop runs remove_task, the done callback of task n
RemoveTask(n) ==
    /\ n \in DOMAIN background_tasks
    /\ background_tasks[n].pc = "done"
    /\ background_tasks' = remove_task(background_tasks, n)
    /\ rl_last' = [op |-> "remove_task", task |-> n]
    /\ UNCHANGED notRL
    /\ UNCHANGED <<rlSettings, redis_rl, rl_time, mysql_records, rl_seen, rl_calls,
                   rl_admitted, rl_cleanup>>

\* RateLimitStorage.cleanup_old_records(days) from one await to the next: the
\* cutoff is taken before the DELETE is sent, and the DELETE takes effect with
\* the commit
CleanupOldRecords(days, fault) ==
    LET w == [pc |-> IF rl_cleanup.pc = "none" THEN "connect" ELSE rl_cleanup.pc,
              row |-> Nil, connection |-> rl_cleanup.connection,
              outcome |-> "pending"]
        w1 == RateLimitStorage_step(w, fault)
        cutoff == IF w.pc = "connect" THEN rl_time - days * SecondsPerDay
                  ELSE rl_cleanup.cutoff
    IN  /\ rl_cleanup.pc # "none" => days = rl_cleanup.days
        /\ fault \in faults_at(w.pc)
        /\ rl_cleanup' = (IF w1.pc = "done" THEN NoCleanup
                          ELSE [pc |-> w1.pc, days |-> days, cutoff |-> cutoff,
                                connection |-> w1.connection])
        /\ mysql_records' = (IF committed(w, w1)
                             THEN cleanup_old_records(mysql_records, cutoff)
                             ELSE mysql_records)
        /\ rl_last' = [op |-> "cleanup", outcome |-> w1.outcome]
        /\ UNCHANGED notRL
        /\ UNCHANGED <<rlSettings, redis_rl, rl_time, background_tasks, rl_seen,
                       rl_calls, rl_admitted>>

\* half a minute passes, up to a last moment; the fast KV drops the keys
\* whose TTL has run out
TimePasses(until) ==
    /\ rl_time + (SecondsPerMinute \div 2) <= until
    /\ rl_time' = rl_time + (SecondsPerMinute \div 2)
    /\ redis_rl' = redis_purge(redis_rl, rl_time')
    /\ rl_last' = [op |-> "tick"]
    /\ UNCHANGED notRL
    /\ UNCHANGED <<rlSettings, mysql_records, background_tasks, rl_seen, rl_calls,
                   rl_admitted, rl_cleanup>>

RLTick == TimePasses(MaxMinutes * SecondsPerMinute)

\* the requests whose calls overlap when faults and two identifiers are explored
TwoCallers == {1, 2}

RLNext ==
    \/ \E c \in TwoCallers, identifier \in Identifiers, fault \in {"none", "get"} :
          CheckGet(c, identifier, fault)
    \/ \E c \in TwoCallers, fault \in Faults \ {"get"} : CheckPipeline(c, fault)
    \/ RLTick

SpecRL == RLInit /\ [][RLNext]_vars

\* the retention periods cleanup_old_records is called with
CleanupDays == {0, 30}

RLDurableNext ==
    \/ \E c \in TwoCallers, fault \in {"none", "get"} :
          CheckGet(c, "login:alice", fault)
    \/ \E c \in TwoCallers, fault \in Faults \ {"get"} : CheckPipeline(c, fault)
    \/ \E c \in TwoCallers, fault \in WriteFaults : CheckWrite(c, fault)
    \/ \E n \in TaskIds, fault \in WriteFaults : TaskStep(n, fault)
    \/ \E n \in TaskIds : RemoveTask(n)

SpecRLDurable == RLDurableInit /\ [][RLDurableNext]_vars

\* the durable tier with awaited writes, one request at a time, and the
\* clean-up of its table as time passes
RLCleanupInit ==
    /\ RLSetup({TRUE}, {FALSE}, {1}, {SecondsPerMinute}, {"/auth/login"}, {}, {})
    /\ rate_limit_enabled

RLCleanupNext ==
    \/ CheckGet(1, "login:alice", "none")
    \/ CheckPipeline(1, "none")
    \/ CheckWrite(1, NoWriteFault)
    \/ \E days \in CleanupDays, fault \in WriteFaults : CleanupOldRecords(days, fault)
    \/ TimePasses(2 * MaxMinutes * SecondsPerMinute)

SpecRLCleanup == RLCleanupInit /\ [][RLCleanupNext]_vars

\* the fast tier alone, rate limiting on, a limit of at least one
RLConcurrentInit ==
    /\ RLSetup({FALSE}, {FALSE}, 1..MaxLimit, {SecondsPerMinute},
               {NoRoute, "/auth/login"}, {}, {SharedIdentifier})
    /\ rate_limit_enabled

\* calls on one identifier with the fast KV answering
RLConcurrentNext ==
    \/ \E c \in Callers : CheckGet(c, SharedIdentifier, "none")
    \/ \E c \in Callers : CheckPipeline(c, "none")
    \/ RLTick

SpecRLConcurrent == RLConcurrentInit /\ [][RLConcurrentNext]_vars

----------------------------------------------------------------------------
(* Claims about the rate limiter, checked under SpecRL *)

\* the last step returned the answer of a check made with rate limiting on,
\* every fast-KV operation since the bucket was created has succeeded, and no
\* call found the counter changed between its GET and its pipeline
CleanCheck ==
    /\ rl_last.op = "check"
    /\ rate_limit_enabled
    /\ rl_last.clean

\* C6: with rate limiting on and the fast KV available, the i-th sequential
\* check of an identifier since its bucket was created is allowed with
\* remaining = L - i when i <= L; every later check during the bucket's life
\* is denied with remaining = 0 and leaves the counter as it was.
C6_RemainingCountsDown ==
    CleanCheck =>
       LET i == rl_last.ordinal
           L == rl_args.limit
       IN  IF i <= L
           THEN /\ rl_last.allowed
                /\ rl_last.remaining = L - i
                /\ rl_last.count_after = i
           ELSE /\ ~rl_last.allowed
                /\ rl_last.remaining = 0
                /\ rl_last.count_after = rl_last.count_before

C6_Witness ==
    /\ CleanCheck
    /\ rl_args.limit = 2
    /\ rl_last.ordinal = 3
    /\ ~rl_last.allowed
    /\ rl_last.count_before = 2

\* C7: a check in which the GET or the pipelined INCR + EXPIRE failed answers
\* (allowed = true, remaining = limit).
C7_FailOpen ==
    (rl_last.op = "check" /\ rl_last.failed) =>
       /\ rl_last.allowed
       /\ rl_last.remaining = rl_args.limit

C7_Witness ==
    /\ rl_last.op = "check"
    /\ rl_last.failed
    /\ rl_args.limit > 0
    /\ rl_last.count_before >= rl_args.limit
    /\ rl_last.allowed

\* C16: whatever the durable-tier write does (success, connection failure,
\* exception; awaited or scheduled), check_rate_limit returns the (allowed,
\* remaining) pair it returns with the durable tier disabled.
C16_DurableTierNeverChangesAnswer ==
    (rl_last.op = "check" /\ rate_limit_mysql_enabled) =>
        <<rl_last.allowed, rl_last.remaining>> = rl_last.fast_tier

\* a denied check whose awaited durable write raised and was rolled back
C16_Witness ==
    /\ rl_last.op = "check"
    /\ rate_limit_enabled
    /\ rate_limit_mysql_enabled
    /\ ~rate_limit_mysql_async
    /\ rl_args.limit = 1
    /\ rl_last.durable_outcome = "exception"
    /\ rl_last.count_before = 1
    /\ ~rl_last.allowed
    /\ rl_last.remaining = 0

\* the fast KV with the bucket of the identifier alone
OwnBucket(kv, identifier) ==
    [k \in DOMAIN kv \cap {BucketKey(identifier)} |-> kv[k]]

\* the bucket of an identifier: its counter and its expiry, Nil without a key
Bucket(kv, identifier) ==
    IF BucketKey(identifier) \in DOMAIN kv THEN kv[BucketKey(identifier)]
    ELSE [value |-> Nil, expire_at |-> Nil]

\* the step of a check gave what r gives: the same bucket, and the same answer
\* when the check returned
SameStep(a, r, returns) ==
    /\ Bucket(redis_rl', a) = Bucket(r.kv, a)
    /\ (rl_last'.op = "check") = returns
    /\ rl_last'.op = "check" =>
          /\ rl_last'.allowed = r.allowed
          /\ rl_last'.remaining = r.remaining

\* C17: every step of a check for one identifier, its GET and its pipeline,
\* reads and modifies only that identifier's bucket: the buckets of the other
\* identifiers stay as they are, and the answer and the new counter are those
\* the step gives on a fast KV holding nothing but the identifier's own
\* bucket, so under any interleaving an identifier's outcomes are the same as
\* if the others had sent nothing.
C17_OnlyOwnBucket ==
    [][(rate_limit_enabled /\ rl_last'.op \in {"get", "pipeline", "check"}) =>
         LET a == rl_last'.identifier
             own == OwnBucket(redis_rl, a)
             at == IF rl_last'.op = "check" THEN rl_last'.at ELSE rl_last'.op
         IN  /\ \A b \in Identifiers \ {a} :
                   Bucket(redis_rl', b) = Bucket(redis_rl, b)
             /\ \E fault \in Faults :
                   IF rl_calls[rl_last'.caller].pc = "pipeline"
                   THEN SameStep(a, check_rate_limit_pipeline(own, rl_time, a,
                                        rl_args.limit, rl_args.window_seconds,
                                        rl_args.route_path, fault), TRUE)
                   ELSE LET g == check_rate_limit_get(own, a, rl_args.limit,
                                        rl_args.window_seconds, rl_args.route_path,
                                        fault)
                        IN  SameStep(a, g.r, g.next = "return")]_vars

\* alice has used up her limit and been denied; bob's check, begun before
\* alice's last one returned, is allowed
C17_Witness ==
    /\ rl_last.op = "check"
    /\ rate_limit_enabled
    /\ rl_args.limit = 1
    /\ rl_args.route_path = "/auth/login"
    /\ rl_seen["login:alice"].calls >= 2
    /\ Bucket(redis_rl, "login:alice").value = 1
    /\ rl_last.identifier = "login:bob"
    /\ rl_last.caller = 2
    /\ rl_last.allowed
    /\ ~rl_last.failed
    /\ rl_last.remaining = 0

\* C19: a bucket is a fixed window: its counter expires window_seconds after
\* the first request counted in it, so no later check of a live bucket moves
\* its expiry.
C19_FixedWindowExpiry ==
    [][\A identifier \in Identifiers :
          (/\ Bucket(redis_rl, identifier).value # Nil
           /\ Bucket(redis_rl', identifier).value # Nil) =>
              Bucket(redis_rl', identifier).expire_at
                 = Bucket(redis_rl, identifier).expire_at]_vars

\* C37: however concurrent calls of check_rate_limit on one identifier, window
\* and route interleave, with limit L and the fast KV answering, at most L of
\* them are allowed within one window
C37_AtMostLimitAllowed == rl_admitted[SharedIdentifier] <= rl_args.limit

\* a call is allowed only after a read below the limit, so the calls allowed
\* in a window exceed the limit by less than the number of concurrent callers
AdmittedBelowLimitPlusCallers ==
    rl_admitted[SharedIdentifier] <= rl_args.limit + MaxCallers - 1

----------------------------------------------------------------------------
(* Token manager and /auth router: src/app/utils/token_manager.py,         *)
(* src/app/routers/auth.py                                                 *)

Users == {"u1"}
Tokens == {"t1", "t2"}
Families == {"f1"}
NoToken == ""
NoFamily == ""
TTLs == 0..MaxTTL

\* what validate_refresh_token returns for a token it does not find (None)
NullRecord == [user_id |-> "", created_at |-> Nil, token_family |-> ""]

\* str(uuid.uuid4()): the n-th value generated, unlike every other one
Uuid4(n) == "uuid4-" \o ToString(n)

\* Redis DEL / SETEX / GET on the refresh_token:{token} keys
tm_delete(kv, token) ==
    [kv EXCEPT !.tokens = [k \in DOMAIN kv.tokens \ {token} |-> kv.tokens[k]]]

tm_setex(kv, token, seconds, data, t) ==
    [kv EXCEPT !.tokens = [k \in DOMAIN kv.tokens \cup {token} |->
        IF k = token THEN [data |-> data, expire_at |-> t + seconds]
        ELSE kv.tokens[k]]]

tm_get(kv, token) ==
    IF token \in DOMAIN kv.tokens THEN kv.tokens[token].data ELSE NullRecord

\* Redis SADD / SREM / EXPIRE on a family of set keys (user_tokens:*, token_family:*)
set_sadd(sets, key, member) ==
    [k \in DOMAIN sets \cup {key} |->
        IF k # key THEN sets[k]
        ELSE IF key \in DOMAIN sets
             THEN [sets[key] EXCEPT !.members = @ \cup {member}]
             ELSE [members |-> {member}, expire_at |-> Nil]]

set_srem(sets, key, member) ==
    IF key \notin DOMAIN sets THEN sets
    ELSE IF sets[key].members \ {member} = {}
         THEN [k \in DOMAIN sets \ {key} |-> sets[k]]
         ELSE [sets EXCEPT ![key].members = @ \ {member}]

set_expire(sets, key, seconds, t) ==
    IF key \in DOMAIN sets
    THEN [sets EXCEPT ![key].expire_at = t + seconds]
    ELSE sets

\* Redis DEL on a set key
set_delete(sets, key) == [k \in DOMAIN sets \ {key} |-> sets[k]]

\* Redis SMEMBERS user_tokens:{user_id}
smembers(kv, user_id) ==
    IF user_id \in DOMAIN kv.user_tokens THEN kv.user_tokens[user_id].members ELSE {}

\* Redis drops the keys whose TTL has run out
tm_purge(kv, t) ==
    LET live(f) == {k \in DOMAIN f : f[k].expire_at = Nil \/ t < f[k].expire_at}
    IN  [tokens |-> [k \in live(kv.tokens) |-> kv.tokens[k]],
         user_tokens |-> [k \in live(kv.user_tokens) |-> kv.user_tokens[k]],
         token_family |-> [k \in live(kv.token_family) |-> kv.token_family[k]]]

\* the fast KV before anything is stored
EmptyStore == [tokens |-> << >>, user_tokens |-> << >>, token_family |-> << >>]

\* TokenManager.validate_refresh_token: the record, or None when the key is
\* missing or the GET raises
validate_refresh_token(kv, refresh_token, fault) ==
    IF fault THEN NullRecord ELSE tm_get(kv, refresh_token)

\* the access token of a reply of the auth-service; NoToken stands for a reply
\* without one (token_response.get("access_token") is None)
AccessToken == "access-1"

\* expires_in of a reply: the key is absent (the gateway takes
\* jwt_expiration_minutes * 60), it is an integer, or it is null
ExpiresIn == {"absent", "integer", "null"}

\* what the auth-service does with the call: it answers 200 with a JSON body
\* (a new refresh token or none, an access token or none, expires_in), it
\* answers with an error status, or the call raises
AuthResponse(kind, status_code, new_refresh_token, access_token, expires_in) ==
    [kind |-> kind, status_code |-> status_code, refresh_token |-> new_refresh_token,
     access_token |-> access_token, expires_in |-> expires_in]

\* no call to the auth-service is answered in this step
NoResponse == AuthResponse("none", 0, NoToken, NoToken, "absent")

AuthResponses ==
    {AuthResponse("answer", 200, token, access_token, expires_in) :
        token \in Tokens \cup {NoToken}, access_token \in {NoToken, AccessToken},
        expires_in \in ExpiresIn}
       \cup {AuthResponse("answer", 401, NoToken, NoToken, "absent"),
             AuthResponse("raise", 0, NoToken, NoToken, "absent")}

\* RefreshTokenResponse(access_token=..., refresh_token=..., expires_in=...)
\* can be built: access_token is a str and expires_in an int (the refresh
\* token is the new one or the presented one, a str)
RefreshTokenResponse(access_token, expires_in) ==
    access_token # NoToken /\ expires_in # "null"

\* service discovery's answers for auth-service: none, one instance
AuthInstances == {<< >>, <<"http://auth">>}

\* `if not token_data`
invalid_token(token_data) == token_data = NullRecord

\* a refresh that gives the new token a family of its own
refresh_family_fresh(old_token_family) == NoFamily

\* token_family=old_token_family
refresh_family(old_token_family) == old_token_family

\* a store that leaves the old token in place
delete_old_token_skipped(kv, old_token) == kv

\* `if old_token: await self.redis_client.delete(old_key)`
delete_old_token(kv, old_token) == tm_delete(kv, old_token)

\* A call of the token manager or of an /auth endpoint is a coroutine that is
\* suspended at one Redis command (or at the call to the auth-service) at a
\* time: pc names the command it waits for. token is the token the call is
\* about, refresh_token the one store_refresh_token stores, data the record
\* the last GET returned or the token_data to be stored, members the tokens
\* revoke_all_user_tokens has still to revoke. The last fields are history:
\* alone (no other call and no expiry between its steps), faulty (a command
\* raised), changed (one of its commands changed the fast KV), before (the
\* record of the token a refresh presents, when it is validated), was_valid
\* (its token, or the old token of a store, was valid when the call began, or
\* when an endpoint validated it), was_revoked.
NoCall ==
    [op |-> "none", pc |-> "idle", user_id |-> "", token |-> NoToken,
     refresh_token |-> NoToken, ttl |-> 0, family |-> NoFamily, old_token |-> NoToken,
     data |-> NullRecord, members |-> {}, ok |-> FALSE, status |-> 0,
     access_token |-> NoToken, expires_in |-> "absent",
     discovery |-> FALSE, called |-> FALSE, logged |-> FALSE,
     alone |-> TRUE, faulty |-> FALSE, changed |-> FALSE, before |-> NullRecord,
     was_valid |-> FALSE, was_revoked |-> FALSE]

\* store_refresh_token(user_id, refresh_token, expires_in_seconds, token_family, old_token)
StoreCall(user_id, refresh_token, expires_in_seconds, token_family, old_token) ==
    [NoCall EXCEPT !.op = "store", !.pc = "enter_store", !.user_id = user_id,
                   !.token = refresh_token, !.refresh_token = refresh_token,
                   !.ttl = expires_in_seconds, !.family = token_family,
                   !.old_token = old_token]

\* validate_refresh_token(refresh_token)
ValidateCall(refresh_token) ==
    [NoCall EXCEPT !.op = "validate", !.pc = "validate", !.token = refresh_token]

\* revoke_refresh_token(refresh_token)
RevokeCall(refresh_token) ==
    [NoCall EXCEPT !.op = "revoke", !.pc = "get", !.token = refresh_token]

\* revoke_all_user_tokens(user_id)
RevokeAllCall(user_id) ==
    [NoCall EXCEPT !.op = "revoke_all", !.pc = "smembers", !.user_id = user_id]

\* POST /auth/refresh {refresh_token} and POST /auth/revoke {refresh_token}
EndpointCall(endpoint, refresh_token) ==
    [NoCall EXCEPT !.op = endpoint, !.pc = "validate", !.token = refresh_token]

\* the call returns ok; an endpoint answers with the status
ended(p, ok, status) == [p EXCEPT !.pc = "done", !.ok = ok, !.status = status]

\* a step of a call: the fast KV and the call after it, and the number of
\* uuids generated so far
Stepped(kv, p, uuids) == [kv |-> kv, p |-> p, uuids |-> uuids]

\* store_refresh_token builds token_data, with a uuid for a family when none
\* is given, and sends the SETEX
token_data_built(kv, t, p, uuids) ==
    LET fresh == p.family = NoFamily
        family == IF fresh THEN Uuid4(uuids + 1) ELSE p.family
    IN  Stepped(kv,
                [p EXCEPT !.pc = "setex",
                          !.data = [user_id |-> p.user_id, created_at |-> t,
                                    token_family |-> family]],
                IF fresh THEN uuids + 1 ELSE uuids)

\* refresh_token from `await audit_logger.log_refresh` (which makes a
\* background task and raises nothing) to its answer: the response model is
\* built, and a reply of the auth-service that it cannot be built from is
\* answered 500 by the `except Exception` clause
refresh_answered(p, ok) ==
    [ended(p, ok, IF RefreshTokenResponse(p.access_token, p.expires_in) THEN 200
                  ELSE 500)
        EXCEPT !.logged = TRUE]

\* store_refresh_token has returned ok: a direct call ends; refresh_token
\* does not read the result, logs the refresh and answers
store_returned(kv, p, ok, uuids) ==
    IF p.op = "POST /auth/refresh"
    THEN Stepped(kv, refresh_answered(p, ok), uuids)
    ELSE Stepped(kv, ended(p, ok, 0), uuids)

\* TokenManager.store_refresh_token from one Redis command to the next, at
\* time t: DEL old (when old_token is given), SETEX, SADD and EXPIRE on the
\* user's set, SADD and EXPIRE on the family's set (when token_family is
\* given). A command that raises ends the call with False and leaves the
\* earlier ones done; SETEX rejects a TTL that is not positive.
store_refresh_token_step(kv, t, p, fault, uuids) ==
    IF p.pc = "del_old"
    THEN IF fault THEN store_returned(kv, p, FALSE, uuids)
         ELSE token_data_built(delete_old_token(kv, p.old_token), t, p, uuids)
    ELSE IF p.pc = "setex"
    THEN IF fault \/ p.ttl <= 0 THEN store_returned(kv, p, FALSE, uuids)
         ELSE Stepped(tm_setex(kv, p.refresh_token, p.ttl, p.data, t),
                      [p EXCEPT !.pc = "sadd_user"], uuids)
    ELSE IF p.pc = "sadd_user"
    THEN IF fault THEN store_returned(kv, p, FALSE, uuids)
         ELSE Stepped([kv EXCEPT !.user_tokens =
                                     set_sadd(@, p.user_id, p.refresh_token)],
                      [p EXCEPT !.pc = "expire_user"], uuids)
    ELSE IF p.pc = "expire_user"
    THEN IF fault THEN store_returned(kv, p, FALSE, uuids)
         ELSE LET kv1 == [kv EXCEPT !.user_tokens =
                                        set_expire(@, p.user_id, p.ttl, t)]
              IN  IF p.family # NoFamily
                  THEN Stepped(kv1, [p EXCEPT !.pc = "sadd_family"], uuids)
                  ELSE store_returned(kv1, p, TRUE, uuids)
    ELSE IF p.pc = "sadd_family"
    THEN IF fault THEN store_returned(kv, p, FALSE, uuids)
         ELSE Stepped([kv EXCEPT !.token_family =
                                     set_sadd(@, p.family, p.refresh_token)],
                      [p EXCEPT !.pc = "expire_family"], uuids)
    ELSE IF fault THEN store_returned(kv, p, FALSE, uuids)
    ELSE store_returned([kv EXCEPT !.token_family =
                                       set_expire(@, p.family, p.ttl, t)],
                        p, TRUE, uuids)

\* store_refresh_token up to its first Redis command
store_refresh_token_enter(kv, t, p, uuids) ==
    IF p.old_token # NoToken THEN Stepped(kv, [p EXCEPT !.pc = "del_old"], uuids)
    ELSE token_data_built(kv, t, p, uuids)

\* the tokens revoke_all_user_tokens may take next from the set it iterates,
\* in any order; the DEL of the user's set follows the last one
next_token(p) ==
    IF p.members = {} THEN {[p EXCEPT !.pc = "delete_set"]}
    ELSE {[p EXCEPT !.pc = "get", !.token = token, !.members = @ \ {token}] :
             token \in p.members}

\* revoke_refresh_token has returned ok: a direct call ends; revoke_token
\* logs the revocation and answers 200, or answers 500;
\* revoke_all_user_tokens does not read the result and goes on
revoke_returned(kv, p, ok, uuids) ==
    IF p.op = "revoke_all"
    THEN {Stepped(kv, q, uuids) : q \in next_token(p)}
    ELSE IF p.op = "POST /auth/revoke"
    THEN {Stepped(kv, [ended(p, ok, IF ok THEN 200 ELSE 500) EXCEPT !.logged = ok],
                  uuids)}
    ELSE {Stepped(kv, ended(p, ok, 0), uuids)}

\* TokenManager.revoke_refresh_token from one Redis command to the next: GET,
\* then DEL and SREM when the token is found
revoke_refresh_token_step(kv, p, fault, uuids) ==
    IF p.pc = "get"
    THEN IF fault \/ tm_get(kv, p.token) = NullRecord
         THEN revoke_returned(kv, p, FALSE, uuids)
         ELSE {Stepped(kv, [p EXCEPT !.pc = "del", !.data = tm_get(kv, p.token)], uuids)}
    ELSE IF p.pc = "del"
    THEN IF fault THEN revoke_returned(kv, p, FALSE, uuids)
         ELSE IF p.data.user_id # ""
         THEN {Stepped(tm_delete(kv, p.token), [p EXCEPT !.pc = "srem"], uuids)}
         ELSE revoke_returned(tm_delete(kv, p.token), p, TRUE, uuids)
    ELSE IF fault THEN revoke_returned(kv, p, FALSE, uuids)
    ELSE revoke_returned([kv EXCEPT !.user_tokens =
                                        set_srem(@, p.data.user_id, p.token)],
                         p, TRUE, uuids)

\* TokenManager.revoke_all_user_tokens outside its calls of
\* revoke_refresh_token: SMEMBERS on the user's set, and the DEL of the set
revoke_all_user_tokens_step(kv, p, fault, uuids) ==
    IF fault THEN {Stepped(kv, ended(p, FALSE, 0), uuids)}
    ELSE IF p.pc = "smembers"
    THEN {Stepped(kv, q, uuids) :
             q \in next_token([p EXCEPT !.members = smembers(kv, p.user_id)])}
    ELSE {Stepped([kv EXCEPT !.user_tokens = set_delete(@, p.user_id)],
                  ended(p, TRUE, 0), uuids)}

\* the reply to the GET of validate_refresh_token: a direct call returns the
\* record. revoke_token answers 200 for a token that is not found and calls
\* revoke_refresh_token for one that is. refresh_token answers 401 for a
\* token that is not found, asks service discovery, answers 503 without an
\* instance, and calls the first instance.
validate_refresh_token_step(kv, p, fault, instances, rotation, days, uuids) ==
    LET token_data == validate_refresh_token(kv, p.token, fault)
        q == [p EXCEPT !.data = token_data]
    IN  IF p.op = "validate"
        THEN Stepped(kv, ended(q, token_data # NullRecord, 0), uuids)
        ELSE IF p.op = "POST /auth/revoke"
        THEN IF invalid_token(token_data) THEN Stepped(kv, ended(q, TRUE, 200), uuids)
             ELSE Stepped(kv, [q EXCEPT !.pc = "get"], uuids)
        ELSE IF invalid_token(token_data) THEN Stepped(kv, ended(q, FALSE, 401), uuids)
        ELSE IF Len(instances) = 0
        THEN Stepped(kv, [ended(q, FALSE, 503) EXCEPT !.discovery = TRUE], uuids)
        ELSE Stepped(kv,
                     [q EXCEPT !.pc = "post", !.discovery = TRUE,
                               !.user_id = token_data.user_id,
                               !.family = refresh_family(token_data.token_family),
                               !.old_token = IF rotation THEN p.token ELSE NoToken,
                               !.ttl = days * SecondsPerDay],
                     uuids)

\* refresh_token (POST /auth/refresh) from the reply of the auth-service on:
\* an exception answers 500, a status other than 200 is passed on, the
\* tokens and expires_in are read from the body, a reply without refresh
\* token is answered with the presented one, and a new refresh token is
\* stored, with old_token under rotation, before the response is built
refresh_token_step(kv, t, p, response, uuids) ==
    LET q == [p EXCEPT !.called = TRUE]
        q1 == [q EXCEPT !.access_token = response.access_token,
                        !.expires_in = response.expires_in]
    IN  IF response.kind = "raise" THEN Stepped(kv, ended(q, FALSE, 500), uuids)
        ELSE IF response.status_code # 200
        THEN Stepped(kv, ended(q, FALSE, response.status_code), uuids)
        ELSE IF response.refresh_token = NoToken
        THEN Stepped(kv, refresh_answered([q1 EXCEPT !.refresh_token = p.token], TRUE),
                     uuids)
        ELSE store_refresh_token_enter(
                 kv, t, [q1 EXCEPT !.refresh_token = response.refresh_token], uuids)

\* the steps a suspended call can take when the command it waits for is
\* answered (fault: the command raises)
tm_steps(kv, t, p, fault, instances, response, rotation, days, uuids) ==
    IF p.pc = "enter_store" THEN {store_refresh_token_enter(kv, t, p, uuids)}
    ELSE IF p.pc = "validate"
    THEN {validate_refresh_token_step(kv, p, fault, instances, rotation, days, uuids)}
    ELSE IF p.pc = "post" THEN {refresh_token_step(kv, t, p, response, uuids)}
    ELSE IF p.pc \in {"get", "del", "srem"}
    THEN revoke_refresh_token_step(kv, p, fault, uuids)
    ELSE IF p.pc \in {"smembers", "delete_set"}
    THEN revoke_all_user_tokens_step(kv, p, fault, uuids)
    ELSE {store_refresh_token_step(kv, t, p, fault, uuids)}

\* a call run from its first command to its return with no other call in
\* between and every command answered
RECURSIVE run_alone(_, _, _, _)
run_alone(kv, t, p, uuids) ==
    IF p.pc = "done" THEN Stepped(kv, p, uuids)
    ELSE LET r == CHOOSE x \in tm_steps(kv, t, p, FALSE, <<"http://auth">>,
                                        NoResponse, FALSE, 0, uuids) : TRUE
         IN  run_alone(r.kv, t, r.p, r.uuids)

\* the requests that are under way at the same time
TMCallers == 1..MaxAuthRequests

\* the settings the /auth router reads, the fast KV, and no call under way
TMSetup(rotations, kv) ==
    /\ CBCIdle
    /\ DWIdle
    /\ ProxyIdle
    /\ CBIdle
    /\ RLIdle
    /\ GWIdle
    /\ RTIdle
    /\ LBIdle
    /\ RouterIdle
    /\ redis_tm = kv
    /\ tm_time = 0
    /\ revoked_once = {}
    /\ tm_last = [op |-> "init"]
    /\ tm_calls = [c \in TMCallers |-> NoCall]
    /\ uuid_calls = 0
    /\ jwt_refresh_rotation_enabled \in rotations
    /\ jwt_refresh_expiration_days = 7

TMInit == TMSetup({TRUE}, EmptyStore)

\* what a call that has returned leaves in the history: its arguments and its
\* result, and of its own history what is read of a call of its kind
TMEvent(p) ==
    LET refresh == p.op = "POST /auth/refresh"
        revoke == p.op \in {"revoke", "POST /auth/revoke"}
    IN  [op |-> p.op, token |-> p.token, refresh_token |-> p.refresh_token,
         old_token |-> p.old_token, user_id |-> p.user_id, token_family |-> p.family,
         ok |-> p.ok, status |-> p.status, discovery |-> p.discovery,
         called |-> p.called, logged |-> p.logged, alone |-> p.alone,
         faulty |-> (refresh \/ revoke) /\ p.faulty,
         kv_changed |-> refresh /\ p.changed,
         before |-> p.before,
         was_valid |-> p.op \notin {"validate", "revoke_all"} /\ p.was_valid,
         was_revoked |-> revoke /\ p.was_revoked]

\* the calls other than c that are under way
OtherCalls(c) == {o \in TMCallers \ {c} : tm_calls[o].pc \notin {"idle", "done"}}

\* the command that was answered ended a revoke_refresh_token with True
revoked_by(p, fault) ==
    IF ~fault /\ (p.pc = "srem" \/ (p.pc = "del" /\ p.data.user_id = ""))
    THEN {p.token} ELSE {}

\* the command that was answered was a SETEX that stored the token
stored_by(p, fault) ==
    IF ~fault /\ p.pc = "setex" /\ p.ttl > 0 THEN {p.refresh_token} ELSE {}

\* the history of a call that is no longer alone is of no use
overlapped(p) ==
    [p EXCEPT !.alone = FALSE, !.before = NullRecord, !.was_revoked = FALSE,
              !.faulty = FALSE]

\* call c takes the step r from p: the calls that are suspended meanwhile are
\* no longer alone. A call that has returned
\* leaves its slot, or stays in it as answered when keep is set
Advance(c, p, r, fault, keep) ==
    LET q1 == [r.p EXCEPT !.faulty = @ \/ fault,
                          !.changed = @ \/ r.kv # redis_tm]
        q2 == IF q1.alone THEN q1 ELSE overlapped(q1)
        \* an endpoint presents its token with the GET of its validation
        q == IF p.pc = "validate"
             THEN [q2 EXCEPT !.before = IF p.op = "POST /auth/refresh"
                                        THEN tm_get(redis_tm, p.token)
                                        ELSE NullRecord,
                             !.was_valid = tm_get(redis_tm, p.token) # NullRecord]
             ELSE q2
    IN  /\ redis_tm' = r.kv
        /\ uuid_calls' = r.uuids
        /\ revoked_once' = (revoked_once \cup revoked_by(p, fault)) \ stored_by(p, fault)
        /\ tm_calls' = [o \in DOMAIN tm_calls |->
              IF o = c THEN (IF q.pc = "done" /\ ~keep THEN NoCall ELSE q)
              ELSE IF tm_calls[o].pc \in {"idle", "done"} THEN tm_calls[o]
              ELSE overlapped(tm_calls[o])]
        /\ tm_last' = (IF q.pc = "done" THEN TMEvent(q) ELSE [op |-> "step"])
        /\ UNCHANGED <<tm_time, tmSettings>>
        /\ UNCHANGED notTM

\* a request enters a call of the token manager or an endpoint, which runs to
\* its first await: store_refresh_token without old_token reads the clock and
\* draws the uuid of the family before it sends the SETEX; every other call
\* sends its first command. The fast KV is as it was
BeginCall(c, call) ==
    LET subject == IF call.op = "store" THEN call.old_token ELSE call.token
        entered == [call EXCEPT !.alone = OtherCalls(c) = {},
                                !.before = IF call.op = "POST /auth/refresh"
                                           THEN tm_get(redis_tm, subject)
                                           ELSE NullRecord,
                                !.was_valid = tm_get(redis_tm, subject) # NullRecord,
                                !.was_revoked = call.token \in revoked_once]
        first == IF call.op = "store"
                 THEN store_refresh_token_enter(redis_tm, tm_time, entered, uuid_calls)
                 ELSE Stepped(redis_tm, entered, uuid_calls)
    IN  /\ tm_calls[c].pc = "idle"
        /\ \A o \in DOMAIN tm_calls : o < c => tm_calls[o].pc # "idle"
        /\ (call.op = "store" /\ call.family = NoFamily) => uuid_calls < MaxUuids
        /\ tm_calls' = [o \in DOMAIN tm_calls |->
              IF o = c THEN first.p
              ELSE IF tm_calls[o].pc \in {"idle", "done"} THEN tm_calls[o]
              ELSE overlapped(tm_calls[o])]
        /\ uuid_calls' = first.uuids
        /\ tm_last' = [op |-> "enter"]
        /\ UNCHANGED <<redis_tm, tm_time, revoked_once, tmSettings>>
        /\ UNCHANGED notTM

\* the command a suspended call waits for is answered: the fast KV answers or
\* raises, service discovery answers a refresh with instances, the
\* auth-service answers with response
ResumeCall(c, fault, instances, response, keep) ==
    /\ tm_calls[c].pc \notin {"idle", "done"}
    /\ (tm_calls[c].pc = "post") = (response # NoResponse)
    /\ fault => tm_calls[c].pc # "post"
    /\ instances = << >> =>
          tm_calls[c].pc = "validate" /\ tm_calls[c].op = "POST /auth/refresh"
    /\ \E r \in tm_steps(redis_tm, tm_time, tm_calls[c], fault, instances,
                         response, jwt_refresh_rotation_enabled,
                         jwt_refresh_expiration_days, uuid_calls) :
          Advance(c, tm_calls[c], r, fault, keep)

\* one unit of time passes; the fast KV drops the keys whose TTL has run out
TMTick ==
    /\ tm_time < MaxTokenTime
    /\ tm_time' = tm_time + 1
    /\ redis_tm' = tm_purge(redis_tm, tm_time')
    /\ tm_last' = [op |-> "tick"]
    /\ tm_calls' = [o \in DOMAIN tm_calls |->
          IF tm_calls[o].pc \in {"idle", "done"} THEN tm_calls[o]
          ELSE overlapped(tm_calls[o])]
    /\ UNCHANGED <<revoked_once, uuid_calls, tmSettings>>
    /\ UNCHANGED notTM

\* the calls that overlap in the token manager's specifications
TwoCalls == {1, 2}

\* store_refresh_token(user_id, refresh_token, expires_in_seconds, token_family, old_token)
Store(c, user_id, token, ttl, family, old_token) ==
    BeginCall(c, StoreCall(user_id, token, ttl, family, old_token))

\* validate_refresh_token(refresh_token)
Validate(c, token) == BeginCall(c, ValidateCall(token))

\* revoke_refresh_token(refresh_token)
Revoke(c, token) == BeginCall(c, RevokeCall(token))

\* POST /auth/revoke {refresh_token}
RevokeEndpoint(c, token) == BeginCall(c, EndpointCall("POST /auth/revoke", token))

\* revoke_all_user_tokens(user_id)
RevokeAll(c, user_id) == BeginCall(c, RevokeAllCall(user_id))

\* POST /auth/refresh {refresh_token}
Refresh(c, token) == BeginCall(c, EndpointCall("POST /auth/refresh", token))

\* a suspended call of the token manager goes on
TMStep(c, fault) == ResumeCall(c, fault, <<"http://auth">>, NoResponse, FALSE)

\* the calls of a specification whose calls come one after the other
OneCall == {1}

\* calls one after the other, each taken command by command: the stores of a
\* refresh (a family, with or without an old token) and of a login (neither),
\* validations, revocations, commands of the fast KV that raise, and the
\* passing of time between two commands
TMNext ==
    \/ \E c \in OneCall, user_id \in Users, token \in Tokens, ttl \in TTLs,
          family \in Families, old_token \in Tokens \cup {NoToken} :
          Store(c, user_id, token, ttl, family, old_token)
    \/ \E c \in OneCall, user_id \in Users, token \in Tokens, ttl \in TTLs :
          Store(c, user_id, token, ttl, NoFamily, NoToken)
    \/ \E c \in OneCall, token \in Tokens : Validate(c, token)
    \/ \E c \in OneCall, token \in Tokens : Revoke(c, token)
    \/ \E c \in OneCall, token \in Tokens : RevokeEndpoint(c, token)
    \/ \E c \in OneCall, fault \in BOOLEAN : TMStep(c, fault)
    \/ TMTick

SpecTM == TMInit /\ [][TMNext]_vars

\* the lifetimes the tokens of a user are stored with
UserTTLs == {1, 2}

\* stores with equal or different lifetimes, rotations, single revocations and
\* revocations of all the tokens of a user, one call after the other, with
\* the fast KV available but for the SMEMBERS and the DEL of the set in
\* revoke_all_user_tokens
TMAllNext ==
    \/ \E c \in OneCall, user_id \in Users, token \in Tokens, ttl \in UserTTLs,
          family \in Families \cup {NoFamily}, old_token \in Tokens \cup {NoToken} :
          Store(c, user_id, token, ttl, family, old_token)
    \/ \E c \in OneCall, token \in Tokens : Revoke(c, token)
    \/ \E c \in OneCall, user_id \in Users : RevokeAll(c, user_id)
    \/ \E c \in OneCall, fault \in BOOLEAN :
          /\ fault => tm_calls[c].pc \in {"smembers", "delete_set"}
          /\ TMStep(c, fault)
    \/ TMTick

SpecTMAll == TMInit /\ [][TMAllNext]_vars

\* two calls that overlap: a store, a revocation or a revocation of all the
\* tokens of a user is suspended at a command while the other call runs
TMOverlapNext ==
    \/ \E c \in TwoCalls, user_id \in Users, token \in Tokens, family \in Families,
          old_token \in Tokens \cup {NoToken} :
          Store(c, user_id, token, 1, family, old_token)
    \/ \E c \in TwoCalls, token \in Tokens : Revoke(c, token)
    \/ \E c \in TwoCalls, user_id \in Users : RevokeAll(c, user_id)
    \/ \E c \in TwoCalls : TMStep(c, FALSE)

SpecTMOverlap == TMInit /\ [][TMOverlapNext]_vars

ARInit == TMSetup(BOOLEAN, EmptyStore)

\* a suspended refresh goes on: service discovery or the auth-service
\* answers, or the fast KV answers or raises
RefreshStep(c, fault, instances, response) ==
    ResumeCall(c, fault, instances, response, FALSE)

\* the commands of the store of a refresh that may raise: the SETEX (after
\* the DEL of the old token under rotation) and the SADD that follows it
StoreFaults == {"setex", "sadd_user"}

\* the token of a login stored with a family or, once, without; refreshes
\* one after the other against every answer of discovery and of the
\* auth-service; and the passing of time between two commands
ARNext ==
    \/ \E c \in OneCall, user_id \in Users, family \in Families \cup {NoFamily} :
          /\ family = NoFamily => uuid_calls = 0
          /\ Store(c, user_id, "t1", 1, family, NoToken)
    \/ \E c \in OneCall, token \in Tokens : Refresh(c, token)
    \/ \E c \in OneCall, fault \in BOOLEAN, instances \in AuthInstances,
          response \in AuthResponses \cup {NoResponse} :
          /\ fault => tm_calls[c].pc \in StoreFaults
          /\ RefreshStep(c, fault, instances, response)
    \/ TMTick

SpecAR == ARInit /\ [][ARNext]_vars

----------------------------------------------------------------------------
(* Claims about the token manager, checked under SpecTM *)

\* C8: right after store_refresh_token(user, t2, ttl, family, old_token = t1)
\* has returned True, with t1 and t2 two tokens and a family given, after any
\* sequence of stores and revocations and with no other call between its
\* commands, validate_refresh_token(t1) returns nothing and
\* validate_refresh_token(t2) returns a record with that user_id and
\* token_family.
C8_RotationInvalidatesOld ==
    (/\ tm_last.op = "store"
     /\ tm_last.ok
     /\ tm_last.alone
     /\ tm_last.old_token # NoToken
     /\ tm_last.old_token # tm_last.token
     /\ tm_last.token_family # NoFamily) =>
       /\ validate_refresh_token(redis_tm, tm_last.old_token, FALSE) = NullRecord
       /\ validate_refresh_token(redis_tm, tm_last.token, FALSE).user_id
             = tm_last.user_id
       /\ validate_refresh_token(redis_tm, tm_last.token, FALSE).token_family
             = tm_last.token_family

C8_Witness ==
    /\ tm_last.op = "store"
    /\ tm_last.ok
    /\ tm_last.alone
    /\ tm_last.old_token = "t1"
    /\ tm_last.token = "t2"
    /\ tm_last.token_family = "f1"
    /\ tm_last.was_valid
    /\ tm_time > 0
    /\ tm_get(redis_tm, "t2").token_family = "f1"

\* C9: with the fast KV available, revoking a token that is valid, or that has
\* just been revoked, with no other call in between, succeeds
\* (revoke_refresh_token returns True, POST /auth/revoke answers 200), and the
\* token is invalid afterwards.
C9_RevokeTwiceSucceeds ==
    (/\ tm_last.op \in {"revoke", "POST /auth/revoke"}
     /\ ~tm_last.faulty
     /\ tm_last.alone
     /\ (tm_last.was_valid \/ tm_last.was_revoked)) =>
       /\ tm_last.ok
       /\ validate_refresh_token(redis_tm, tm_last.token, FALSE) = NullRecord

\* C20: once revoke_all_user_tokens(u) has returned, with no other call
\* between its commands, validate finds no token of u among those stored and
\* not yet expired, whatever stores (with equal or different lifetimes),
\* rotations and single revocations came before.
C20_RevokeAllLeavesNoToken ==
    (tm_last.op = "revoke_all" /\ tm_last.ok /\ tm_last.alone) =>
        \A token \in Tokens :
           validate_refresh_token(redis_tm, token, FALSE).user_id # tm_last.user_id

\* a refresh that found its token and got no instance from discovery: the
\* call was not made and the token manager was not asked again
NoInstanceFound ==
    tm_last.was_valid /\ tm_last.discovery /\ ~tm_last.called /\ ~tm_last.logged

\* C21: POST /auth/refresh leaves the token store as it was on its error
\* paths. An invalid or expired token: 401, discovery not consulted and the
\* auth-service not called. A valid token and no auth-service instance: 503,
\* the auth-service not called, and the presented token still valid.
C21_RefreshErrorsLeaveStore ==
    tm_last.op = "POST /auth/refresh" =>
      /\ ~tm_last.was_valid =>
            /\ tm_last.status = 401
            /\ ~tm_last.discovery /\ ~tm_last.called
            /\ ~tm_last.kv_changed
      /\ NoInstanceFound => tm_last.status = 503
      /\ tm_last.status = 503 =>
            /\ tm_last.was_valid
            /\ ~tm_last.called
            /\ ~tm_last.kv_changed
            /\ validate_refresh_token(redis_tm, tm_last.token, FALSE) = tm_last.before
      /\ tm_last.status # 200 => ~tm_last.kv_changed

\* the part of C21 about the two named error paths: an invalid or expired
\* token is answered 401 before discovery, a valid token without instance
\* 503 before the call, and an error passed on from the auth-service (or a
\* call that raises) is answered before any store; in each the token store
\* is as it was
RefreshErrorsBeforeStoreLeaveStore ==
    tm_last.op = "POST /auth/refresh" =>
      /\ ~tm_last.was_valid =>
            /\ tm_last.status = 401
            /\ ~tm_last.discovery /\ ~tm_last.called
            /\ ~tm_last.kv_changed
      /\ NoInstanceFound => tm_last.status = 503
      /\ tm_last.status = 503 =>
            /\ tm_last.was_valid
            /\ ~tm_last.called
            /\ ~tm_last.kv_changed
            /\ validate_refresh_token(redis_tm, tm_last.token, FALSE) = tm_last.before
      /\ (tm_last.status # 200 /\ ~tm_last.logged) => ~tm_last.kv_changed

\* a refresh with a valid token while discovery has no auth-service instance
RefreshWithoutInstance ==
    /\ tm_last.op = "POST /auth/refresh"
    /\ tm_last.status = 503
    /\ tm_last.token = "t1"
    /\ tm_last.before.user_id = "u1"
    /\ validate_refresh_token(redis_tm, "t1", FALSE).user_id = "u1"

\* a refresh under rotation answered 500 after the presented token was
\* deleted and its successor stored
RefreshFailedAfterStore ==
    /\ tm_last.op = "POST /auth/refresh"
    /\ tm_last.status = 500
    /\ tm_last.kv_changed
    /\ jwt_refresh_rotation_enabled
    /\ tm_last.before.user_id = "u1"
    /\ validate_refresh_token(redis_tm, tm_last.token, FALSE) = NullRecord

\* the last call to return is a refresh answered 200 whose response carries a
\* refresh token other than the one presented, and no other call ran between
\* its commands
RefreshedToNew ==
    /\ tm_last.op = "POST /auth/refresh"
    /\ tm_last.status = 200
    /\ tm_last.alone
    /\ tm_last.refresh_token # tm_last.token

\* C22: after a successful POST /auth/refresh presenting t whose response
\* carries a new refresh token t', validate(t') gives the user_id and the
\* token_family that t had, and validate(t) finds nothing under rotation and
\* finds t without it; so every token of a chain keeps the first one's family.
C22_RefreshKeepsFamily ==
    RefreshedToNew =>
      LET new == validate_refresh_token(redis_tm, tm_last.refresh_token, FALSE)
          old == validate_refresh_token(redis_tm, tm_last.token, FALSE)
      IN  /\ new.user_id = tm_last.before.user_id
          /\ new.token_family = tm_last.before.token_family
          /\ jwt_refresh_rotation_enabled => old = NullRecord
          /\ ~jwt_refresh_rotation_enabled => old = tm_last.before

\* the same where the fast KV has answered every command of the store
RefreshKeepsFamilyWithoutFaults ==
    (RefreshedToNew /\ ~tm_last.faulty) => C22_RefreshKeepsFamily

----------------------------------------------------------------------------
(* Retry handler: src/gateway-service/app/core/retry.py *)

\* the call returned
Ok == "ok"

\* the kinds of exception the call raises
ExceptionKinds == {"ConnectError", "ValueError"}

\* what one invocation of the call does
Outcomes == {Ok} \cup ExceptionKinds

\* nothing was raised
NoException == "none"

\* no sleep followed the invocation
NoSleep == -1

\* settings.retry_max_attempts, retry_backoff_factor, retry_max_delay_seconds
retry_max_attempts == 3
retry_backoff_factor == 2
retry_max_delay_seconds == 10

\* RetryHandler.__init__: a missing (or zero, or empty) argument takes the
\* value of the settings, or [Exception]
RetryHandler(max_attempts, backoff_factor, max_delay_seconds, retryable_exceptions) ==
    [max_attempts |-> IF max_attempts # 0 THEN max_attempts ELSE retry_max_attempts,
     backoff_factor |-> IF backoff_factor # 0 THEN backoff_factor
                        ELSE retry_backoff_factor,
     max_delay_seconds |-> IF max_delay_seconds # 0 THEN max_delay_seconds
                           ELSE retry_max_delay_seconds,
     retryable_exceptions |-> IF retryable_exceptions # {} THEN retryable_exceptions
                              ELSE {"Exception"}]

\* a handler that catches every exception
should_retry_all(handler, exception) == TRUE

\* RetryHandler.should_retry, and the except clause of execute:
\* isinstance(exception, tuple(retryable_exceptions)); every kind is an Exception
should_retry(handler, exception) ==
    \/ "Exception" \in handler.retryable_exceptions
    \/ exception \in handler.retryable_exceptions

\* backoff_factor ** attempt
RECURSIVE power(_, _)
power(base, exponent) ==
    IF exponent = 0 THEN 1 ELSE base * power(base, exponent - 1)

\* the delay before the next attempt
retry_delay(handler, attempt) ==
    Min(power(handler.backoff_factor, attempt), handler.max_delay_seconds)

\* a test that sends the last attempt to sleep too
more_attempts_one_more(handler, attempt) == attempt < handler.max_attempts

\* attempt < max_attempts - 1: another attempt follows this one
more_attempts(handler, attempt) == attempt < handler.max_attempts - 1

\* the result of execute: the invocations made, each with its outcome and the
\* sleep that followed it, and what came back
RetryResult(invocations, returned, raised) ==
    [invocations |-> invocations, returned |-> returned, raised |-> raised]

\* the loop of execute from iteration attempt on; plan[i] is what the i-th
\* invocation of the call does, last_exception the exception caught last
RECURSIVE retry_loop(_, _, _, _, _)
retry_loop(handler, plan, attempt, invocations, last_exception) ==
    IF attempt >= handler.max_attempts
    THEN \* the loop is over: raise last_exception if there is one
         RetryResult(invocations, last_exception = NoException, last_exception)
    ELSE LET outcome == plan[attempt + 1]
         IN  IF outcome = Ok
             THEN RetryResult(Append(invocations,
                                     [outcome |-> outcome, sleep |-> NoSleep]),
                              TRUE, NoException)
             ELSE IF ~should_retry(handler, outcome)
             THEN RetryResult(Append(invocations,
                                     [outcome |-> outcome, sleep |-> NoSleep]),
                              FALSE, outcome)
             ELSE IF more_attempts(handler, attempt)
             THEN retry_loop(handler, plan, attempt + 1,
                             Append(invocations,
                                    [outcome |-> outcome,
                                     sleep |-> retry_delay(handler, attempt)]),
                             outcome)
             ELSE RetryResult(Append(invocations,
                                     [outcome |-> outcome, sleep |-> NoSleep]),
                              FALSE, outcome)

\* RetryHandler.execute: time.sleep between the attempts, nothing is awaited
execute(enabled, handler, plan) ==
    IF ~enabled
    THEN RetryResult(<<[outcome |-> plan[1], sleep |-> NoSleep]>>, plan[1] = Ok,
                     IF plan[1] = Ok THEN NoException ELSE plan[1])
    ELSE retry_loop(handler, plan, 0, << >>, NoException)

\* the seconds execute slept between its attempts
RECURSIVE slept(_)
slept(invocations) ==
    IF invocations = << >> THEN 0
    ELSE (IF Head(invocations).sleep = NoSleep THEN 0 ELSE Head(invocations).sleep)
            + slept(Tail(invocations))

\* no call of execute_async: the iteration of the loop, the invocations made
\* (each with its outcome and the sleep that followed it), what was raised,
\* and the time at which the sleep under way ends
NoRetryCall ==
    [pc |-> "idle", attempt |-> 0, invocations |-> << >>, raised |-> NoException,
     wake |-> 0]

\* execute_async from its entry to `await func(*args, **kwargs)`
execute_async_enter == [NoRetryCall EXCEPT !.pc = "call"]

\* execute_async from the moment the awaited func returns or raises (outcome),
\* at time t, to its next await or its end
execute_async_answered(enabled, handler, p, outcome, t) ==
    LET invoked(sleep) == Append(p.invocations, [outcome |-> outcome, sleep |-> sleep])
        delay == retry_delay(handler, p.attempt)
    IN  IF outcome = Ok
        THEN [p EXCEPT !.pc = "returned", !.invocations = invoked(NoSleep)]
        ELSE IF ~enabled \/ ~should_retry(handler, outcome)
        THEN [p EXCEPT !.pc = "raised", !.invocations = invoked(NoSleep),
                       !.raised = outcome]
        ELSE IF more_attempts(handler, p.attempt)
        THEN [p EXCEPT !.pc = "sleep", !.invocations = invoked(delay),
                       !.wake = t + delay]
        ELSE [p EXCEPT !.pc = "raised", !.invocations = invoked(NoSleep),
                       !.raised = outcome]

\* execute_async from the end of `await asyncio.sleep(delay)` to its next
\* await: the next iteration invokes func, and a loop that is over raises
\* last_exception
execute_async_woken(handler, p) ==
    IF p.attempt + 1 < handler.max_attempts
    THEN [p EXCEPT !.pc = "call", !.attempt = @ + 1, !.wake = 0]
    ELSE [p EXCEPT !.pc = "raised", !.attempt = @ + 1, !.wake = 0,
                   !.raised = p.invocations[Len(p.invocations)].outcome]

\* the allowlists the handlers are built with ({} is the default)
Allowlists == {{}, {"ConnectError"}}

\* the backoff factor and the delay cap they are built with (0 is the
\* default): a factor of 2 under the cap of the settings, a factor of 3 cut
\* by a cap of 2
Backoffs == {<<0, 0>>, <<3, 2>>}

\* what the call does at each invocation
Plans == [1..MaxAttempts -> Outcomes]

\* the calls of execute_async that run at the same time
RetryCalls == 1..MaxRetryCalls

RTInit ==
    /\ CBCIdle
    /\ DWIdle
    /\ ProxyIdle
    /\ CBIdle
    /\ RLIdle
    /\ TMIdle
    /\ GWIdle
    /\ LBIdle
    /\ RouterIdle
    /\ retry_enabled \in BOOLEAN
    /\ retry_handler \in {RetryHandler(m, b[1], b[2], a) :
                             m \in 0..MaxAttempts, b \in Backoffs, a \in Allowlists}
    /\ retry_last = [op |-> "init"]
    /\ retry_calls = [c \in RetryCalls |-> NoRetryCall]
    /\ retry_time = 0

\* execute blocks the thread, and with it the event loop, until it ends
Execute(plan) ==
    \E r \in {execute(retry_enabled, retry_handler, plan)} :
        /\ retry_time + slept(r.invocations) <= MaxRetryTime
        /\ retry_time' = retry_time + slept(r.invocations)
        /\ retry_last' = [op |-> "execute", plan |-> plan,
                          invocations |-> r.invocations,
                          returned |-> r.returned, raised |-> r.raised]
        /\ UNCHANGED <<retry_enabled, retry_handler, retry_calls>>
        /\ UNCHANGED notRT

\* call c of execute_async begins (in a slot whose call has ended) and
\* invokes func
ExecuteAsync(c) ==
    /\ retry_calls[c].pc \in {"idle", "returned", "raised"}
    /\ \A o \in RetryCalls : o < c => retry_calls[o].pc # "idle"
    /\ retry_calls' = [retry_calls EXCEPT ![c] = execute_async_enter]
    /\ retry_last' = [op |-> "execute_async", call |-> c]
    /\ UNCHANGED <<retry_enabled, retry_handler, retry_time>>
    /\ UNCHANGED notRT

\* the func awaited by call c returns or raises
FuncAnswers(c, outcome) ==
    /\ retry_calls[c].pc = "call"
    /\ \E p \in {execute_async_answered(retry_enabled, retry_handler, retry_calls[c],
                                        outcome, retry_time)} :
          /\ p.pc = "sleep" => p.wake <= MaxRetryTime
          /\ retry_calls' = [retry_calls EXCEPT ![c] = p]
    /\ retry_last' = [op |-> "answer", call |-> c]
    /\ UNCHANGED <<retry_enabled, retry_handler, retry_time>>
    /\ UNCHANGED notRT

\* the sleep of call c is over: the event loop wakes the sleepers in the order
\* of their deadlines
SleepEnds(c) ==
    /\ retry_calls[c].pc = "sleep"
    /\ retry_calls[c].wake <= retry_time
    /\ \A o \in RetryCalls :
          retry_calls[o].pc = "sleep" => retry_calls[c].wake <= retry_calls[o].wake
    /\ retry_calls' = [retry_calls EXCEPT ![c] =
                          execute_async_woken(retry_handler, retry_calls[c])]
    /\ retry_last' = [op |-> "wake", call |-> c]
    /\ UNCHANGED <<retry_enabled, retry_handler, retry_time>>
    /\ UNCHANGED notRT

\* a second passes while a call sleeps (nothing else reads the clock)
RTTick ==
    /\ retry_time < MaxRetryTime
    /\ \E c \in RetryCalls : retry_calls[c].pc = "sleep" /\ retry_time < retry_calls[c].wake
    /\ retry_time' = retry_time + 1
    /\ retry_last' = [op |-> "tick"]
    /\ UNCHANGED <<retry_enabled, retry_handler, retry_calls>>
    /\ UNCHANGED notRT

RTNext ==
    \/ \E plan \in Plans : Execute(plan)
    \/ \E c \in RetryCalls : ExecuteAsync(c)
    \/ \E c \in RetryCalls, outcome \in Outcomes : FuncAnswers(c, outcome)
    \/ \E c \in RetryCalls : SleepEnds(c)
    \/ RTTick

SpecRT == RTInit /\ [][RTNext]_vars

----------------------------------------------------------------------------
(* Claims about the retry handler, checked under SpecRT *)

\* a call of execute or execute_async: the invocations it has made, whether
\* it has ended, and how
Run(invocations, over, returned, raised) ==
    [invocations |-> invocations, over |-> over, returned |-> returned,
     raised |-> raised]

\* the last call of execute, and the calls of execute_async begun
Runs ==
    (IF retry_last.op = "execute"
     THEN {Run(retry_last.invocations, TRUE, retry_last.returned, retry_last.raised)}
     ELSE {})
    \cup {Run(retry_calls[c].invocations, retry_calls[c].pc \in {"returned", "raised"},
              retry_calls[c].pc = "returned", retry_calls[c].raised) :
             c \in {o \in DOMAIN retry_calls : retry_calls[o].pc # "idle"}}

\* the first k invocations of the run raised exceptions the handler retries
FailsFirst(run, k) ==
    /\ k <= Len(run.invocations)
    /\ \A i \in 1..k : /\ run.invocations[i].outcome # Ok
                       /\ should_retry(retry_handler, run.invocations[i].outcome)

\* C14: with retry enabled the call is invoked at most max_attempts times; if
\* it fails with retryable errors on its first k < max_attempts calls and then
\* succeeds, the result is returned after exactly k + 1 invocations; if every
\* invocation fails, the call is invoked exactly max_attempts times, the
\* exception of the last invocation is raised, and no sleep follows it.
C14_BoundedAttempts ==
    retry_enabled =>
      \A run \in Runs :
        LET n == Len(run.invocations)
            max == retry_handler.max_attempts
        IN  /\ n <= max
            /\ \A k \in 0..(max - 1) :
                  (/\ FailsFirst(run, k)
                   /\ n > k
                   /\ run.invocations[k + 1].outcome = Ok) =>
                     /\ run.over /\ run.returned
                     /\ n = k + 1
            /\ (run.over /\ FailsFirst(run, n)) =>
                  /\ n = max
                  /\ ~run.returned
                  /\ run.raised = run.invocations[n].outcome
                  /\ run.invocations[n].sleep = NoSleep

\* a call of execute_async has made two retryable failures, each followed by
\* a sleep, then got the result, while another call of execute_async on the
\* same handler made an invocation between two of its own
C14_Witness ==
    /\ retry_enabled
    /\ retry_handler.max_attempts = 3
    /\ retry_calls[1].pc = "returned"
    /\ Len(retry_calls[1].invocations) = 3
    /\ retry_calls[1].invocations[1].outcome = "ConnectError"
    /\ retry_calls[1].invocations[1].sleep = 1
    /\ retry_calls[1].invocations[2].outcome = "ConnectError"
    /\ retry_calls[1].invocations[2].sleep = 2
    /\ retry_calls[1].invocations[3].outcome = Ok
    /\ retry_calls[2].pc = "returned"
    /\ Len(retry_calls[2].invocations) = 2
    /\ retry_time = 3

\* C15: an error whose kind is not in the allowlist propagates at once: the
\* invocation that raised it is the last one, no sleep follows it, and it is
\* the exception the caller gets, however many attempts remain.
C15_NonRetryablePropagates ==
    \A run \in Runs :
      \A i \in DOMAIN run.invocations :
         LET invocation == run.invocations[i]
         IN  (/\ invocation.outcome # Ok
              /\ invocation.outcome \notin retry_handler.retryable_exceptions
              /\ "Exception" \notin retry_handler.retryable_exceptions) =>
                /\ i = Len(run.invocations)
                /\ invocation.sleep = NoSleep
                /\ run.over
                /\ ~run.returned
                /\ run.raised = invocation.outcome

\* a call of execute_async has slept after an allowlisted error and then got
\* an error that is not on the list, at the second of three attempts
C15_Witness ==
    /\ retry_enabled
    /\ retry_handler.max_attempts = 3
    /\ retry_handler.retryable_exceptions = {"ConnectError"}
    /\ retry_calls[1].pc = "raised"
    /\ Len(retry_calls[1].invocations) = 2
    /\ retry_calls[1].invocations[1].outcome = "ConnectError"
    /\ retry_calls[1].invocations[2].outcome = "ValueError"
    /\ retry_calls[1].raised = "ValueError"

----------------------------------------------------------------------------
(* The breaker around the retry loop:                                        *)
(* circuit_breaker.call_async(retry_handler.execute_async, make_request)     *)

\* a breaker inside the retry loop: every failed attempt is a breaker failure
settle_forward_each_attempt(b, t, p) ==
    IF p.invocations[Len(p.invocations)].outcome = Ok THEN on_success(b)
    ELSE on_failure(b, t)

\* the try/except of call_async around execute_async: one _on_success or one
\* _on_failure when the retry loop p has returned or raised, at time t, on the
\* breaker as it is by then; nothing while the loop goes on
settle_forward(b, t, p) ==
    IF p.pc = "returned" THEN on_success(b)
    ELSE IF p.pc = "raised" THEN on_failure(b, t)
    ELSE b

----------------------------------------------------------------------------
(* Request pipeline: src/app/main.py (gateway_handler), the middleware      *)
(* stack of src/gateway-service/app/bootstrap.py, src/app/core/router.py,   *)
(* src/app/middleware/auth.py, src/app/core/proxy.py                        *)

\* str.startswith, str.endswith, `sub in s`
startswith(s, prefix) ==
    Len(prefix) <= Len(s) /\ SubSeq(s, 1, Len(prefix)) = prefix

endswith(s, suffix) ==
    Len(suffix) <= Len(s) /\ SubSeq(s, Len(s) - Len(suffix) + 1, Len(s)) = suffix

contains(s, sub) ==
    \E i \in 1..(Len(s) - Len(sub) + 1) : SubSeq(s, i, i + Len(sub) - 1) = sub

\* str.lower, on the letters the request paths of the model are written with
lower_char(c) ==
    CASE c = "A" -> "a"
      [] c = "L" -> "l"
      [] OTHER -> c

RECURSIVE lower(_)
lower(s) ==
    IF Len(s) = 0 THEN s
    ELSE lower_char(SubSeq(s, 1, 1)) \o lower(SubSeq(s, 2, Len(s)))

\* a dict of headers with nothing in it
NoHeaders == << >>

\* dict.update: the entries of extra replace those of headers
update(headers, extra) ==
    [k \in DOMAIN headers \cup DOMAIN extra |->
        IF k \in DOMAIN extra THEN extra[k] ELSE headers[k]]

\* RouteConfig: path, service, methods, auth_required, rate_limit, headers
RouteConfig(path, service, methods, auth_required, rate_limit, headers) ==
    [path |-> path, service |-> service, methods |-> methods,
     auth_required |-> auth_required, rate_limit |-> rate_limit,
     headers |-> headers]

\* find_route found nothing (None)
NoRouteConfig == RouteConfig(NoRoute, "", {}, FALSE, 0, NoHeaders)

\* Router.routes after _load_routes: the configured routes, the one of highest
\* priority first ("/items" is exact and ranks above the wildcard "/auth/**")
Routes ==
    << RouteConfig("/items", "item-service", {"GET"}, TRUE, 1,
                   [k \in {"X-Source"} |-> "gateway"]),
       RouteConfig("/auth/**", "auth-service", {"POST"}, FALSE, 1,
                   [k \in {"X-Trace-Id"} |-> "static-trace"]) >>

\* Route.matches
matches(config, path, method) ==
    IF method \notin config.methods THEN FALSE
    ELSE IF endswith(config.path, "/**")
    THEN startswith(path, SubSeq(config.path, 1, Len(config.path) - 3))
    ELSE IF endswith(config.path, "/*")
    THEN startswith(path, SubSeq(config.path, 1, Len(config.path) - 2))
    ELSE path = config.path \/ startswith(path, config.path \o "/")

\* Router.find_route: the first route of the list that matches
find_route(routes, path, method) ==
    LET hits == {i \in DOMAIN routes : matches(routes[i], path, method)}
    IN  IF hits = {} THEN NoRouteConfig
        ELSE routes[CHOOSE i \in hits : \A j \in hits : i <= j]

\* settings.jwt_algorithm and settings.rate_limit_per_minute (defaults)
jwt_algorithm == "RS256"
rate_limit_per_minute == 100

\* request.state.user_id / login_identifier / the API key header not set
NoUser == ""

\* the bearer credentials a request may carry: none, a valid token for user
\* u1, a token whose signature or expiry is bad, a token without sub/user_id
Credentials == {"none", "valid", "invalid", "no_sub"}

\* AuthMiddleware.authenticate (authenticate_jwt, then authenticate_api_key,
\* which returns None): status 0 stands for a normal return
authenticate(credentials, key_loaded) ==
    IF credentials = "none" THEN [status |-> 0, user_id |-> NoUser]
    ELSE IF startswith(jwt_algorithm, "RS") /\ ~key_loaded
    THEN [status |-> 500, user_id |-> NoUser]
    ELSE IF credentials = "invalid" THEN [status |-> 401, user_id |-> NoUser]
    ELSE IF credentials = "no_sub" THEN [status |-> 401, user_id |-> NoUser]
    ELSE [status |-> 0, user_id |-> "u1"]

\* the request bodies of the model, and json.loads(body).get("username")
EmptyBody == ""
AliceBody == "{\"username\": \"alice\"}"
Bodies == {EmptyBody, AliceBody}

\* RateLimitMiddleware._extract_login_identifier on a login / register path
extract_login_identifier(path, body) ==
    IF ~contains(lower(path), "/auth/login") /\ ~contains(lower(path), "/auth/register")
    THEN NoUser
    ELSE IF body = AliceBody THEN "alice"
    ELSE NoUser

\* an identifier that puts the client address first
get_identifier_ip_first(user_id, login_identifier, api_key, client_ip) ==
    IF client_ip # NoUser THEN "ip:" \o client_ip
    ELSE IF user_id # NoUser THEN "user:" \o user_id
    ELSE IF login_identifier # NoUser THEN "login:" \o login_identifier
    ELSE IF api_key # NoUser THEN "api_key:" \o api_key
    ELSE "ip:unknown"

\* RateLimitMiddleware._get_identifier; a request without a client address
\* (request.client is None) has the address "unknown"
get_identifier(user_id, login_identifier, api_key, client_ip) ==
    IF user_id # NoUser THEN "user:" \o user_id
    ELSE IF login_identifier # NoUser THEN "login:" \o login_identifier
    ELSE IF api_key # NoUser THEN "api_key:" \o api_key
    ELSE IF client_ip # NoUser THEN "ip:" \o client_ip
    ELSE "ip:unknown"

\* service discovery's answers: no instance, an unhealthy one, a healthy one
ServiceInstance(url, healthy) == [url |-> url, healthy |-> healthy]

InstanceLists ==
    { << >>,
      << ServiceInstance("http://i1", FALSE) >>,
      << ServiceInstance("http://i1", FALSE), ServiceInstance("http://i2", TRUE) >> }

NoInstance == ServiceInstance("", FALSE)

\* LoadBalancer().select_instance: a balancer made for this request, whose
\* round-robin counter starts at 0, picks the first healthy instance
select_instance(instances) ==
    LET healthy == SelectSeq(instances, LAMBDA inst : inst.healthy)
    IN  IF Len(healthy) = 0 THEN NoInstance ELSE healthy[1]

\* the breaker settings of the model: the defaults, and a breaker that opens
\* at the first failure and closes at the first success
GatewayBreakerSettings == {DefaultBreakerSettings, BreakerSettings(1, 60, 1)}

\* CircuitBreaker() under the settings
new_circuit_breaker(settings) ==
    CircuitBreaker(settings.failure_threshold, settings.timeout_seconds,
                   settings.half_open_max_calls)

\* a proxy that makes a new breaker for every call
get_circuit_breaker_fresh(breakers, service_name, settings) == new_circuit_breaker(settings)

\* ProxyService._get_circuit_breaker: the service's breaker, made on first use
get_circuit_breaker(breakers, service_name, settings) ==
    IF service_name \in DOMAIN breakers THEN breakers[service_name]
    ELSE new_circuit_breaker(settings)

put_circuit_breaker(breakers, service_name, b) ==
    [k \in DOMAIN breakers \cup {service_name} |->
        IF k = service_name THEN b ELSE breakers[k]]

\* the credentials / the discovery answer of a request that ends before
\* the step that looks at them
Unread == "unread"

\* no body was forwarded
NoForward == "no forward"

\* the client sent no X-Trace-Id header
NoHeader == ""

\* RequestContext as request_context_middleware builds it: a fresh request
\* id, and the client's X-Trace-Id or else a fresh trace id
RequestContext(req) ==
    [request_id |-> "uuid-1",
     trace_id |-> IF req.trace_header # NoHeader THEN req.trace_header ELSE "uuid-2"]

\* RequestContext.to_forward_headers: span_id is never set on the context,
\* and the token of the model has no claim but sub, so that the user context
\* has no tenant, role or username and is_active is its default, True
to_forward_headers(context, user_id) ==
    LET ids == [k \in {"X-Request-Id", "X-Trace-Id"} |->
                   IF k = "X-Request-Id" THEN context.request_id
                   ELSE context.trace_id]
    IN  IF user_id # NoUser
        THEN update(ids, [k \in {"X-User-Id", "X-Active"} |->
                             IF k = "X-User-Id" THEN user_id ELSE "true"])
        ELSE ids

\* the headers ProxyService.forward_request sends to the backend: those of
\* the context, then the route's extra headers over them
forward_headers(context, user_id, headers) ==
    IF DOMAIN headers # {}
    THEN update(to_forward_headers(context, user_id), headers)
    ELSE to_forward_headers(context, user_id)

\* the headers request_context_middleware puts on the response
response_headers(context) ==
    [k \in {"X-Request-Id", "X-Trace-Id"} |->
        IF k = "X-Request-Id" THEN context.request_id ELSE context.trace_id]

\* the headers RateLimitMiddleware.dispatch adds to the response of a request
\* whose handler has set request.state.rate_limit_remaining
rate_limit_headers(remaining) ==
    [k \in {"X-RateLimit-Remaining"} |-> ToString(remaining)]

\* the request as the client sends it
ClientRequest(method, path, credentials, body, client_ip, trace_header) ==
    [method |-> method, path |-> path, credentials |-> credentials, body |-> body,
     client_ip |-> client_ip, trace_header |-> trace_header]

\* no request is being served. A request being served holds what the pipeline
\* has read of it (the credentials stay Unread on a route without
\* authentication), its route, user and identifier, the stages it has run, the
\* answer of the rate limiter, the durable write it awaits, the answer of
\* discovery, the times the body was asked of the transport, the body given
\* to the backend, its retry loop, and (history) whether a step of it changed
\* a counter or a breaker
NoGatewayRequest ==
    [pc |-> "idle", status |-> 0,
     req |-> ClientRequest("", "", Unread, "", "", NoHeader),
     route |-> NoRouteConfig, user_id |-> NoUser, identifier |-> "", limit |-> 0,
     steps |-> << >>, asked |-> FALSE, allowed |-> TRUE, remaining |-> 0,
     write |-> NoWriteProcess, instances |-> << >>,
     reads |-> 0, forwarded |-> NoForward, raised |-> FALSE, retry |-> NoRetryCall,
     counters_changed |-> FALSE, breakers_changed |-> FALSE]

\* what the pipeline has done once it answers (history)
Answer(p) ==
    LET context == RequestContext(p.req)
    IN  [op |-> "request", status |-> p.status, steps |-> p.steps, route |-> p.route,
         user_context |-> p.user_id, context |-> context,
         response_headers |->
            \* the handler's body read raised: no response reaches the middleware
            IF p.raised THEN NoHeaders
            ELSE IF p.asked /\ p.allowed
            THEN update(response_headers(context), rate_limit_headers(p.remaining))
            ELSE response_headers(context),
         outbound_headers |-> IF p.forwarded = NoForward THEN NoHeaders
                              ELSE forward_headers(context, p.user_id, p.route.headers),
         denied |-> p.asked /\ ~p.allowed,
         credentials |-> p.req.credentials,
         instances |-> p.instances,
         transport_reads |-> p.reads, forwarded |-> p.forwarded,
         sent |-> IF p.forwarded = NoForward THEN NoForward ELSE p.req.body,
         backend_attempts |-> Len(p.retry.invocations),
         counters_changed |-> p.counters_changed,
         breakers_changed |-> p.breakers_changed]

\* raise HTTPException(status), or the response of the backend
answered(p, status) == [p EXCEPT !.pc = "answered", !.status = status]

\* gateway_handler from the return of check_request_rate_limit, whose answer
\* is in p, to `await service_discovery.get_instances`
rate_limit_returned(p) ==
    LET q == [p EXCEPT !.steps = Append(@, "rate_limit"), !.asked = TRUE]
    IN  IF ~q.allowed THEN answered(q, 429) ELSE [q EXCEPT !.pc = "discovery"]

\* check_rate_limit with the answer r of the fast tier, at time t: with the
\* durable tier on (and its writes awaited) the row is built and the write
\* begins; without it the call returns to the handler
fast_tier_answered(p, r, t, mysql_enabled) ==
    LET q == [p EXCEPT !.allowed = r.allowed, !.remaining = r.remaining]
    IN  IF mysql_enabled /\ r.store # Nil
        THEN [q EXCEPT !.pc = "write",
                       !.write = NewWrite(rate_limit_record(t, p.identifier,
                                              SecondsPerMinute, p.route.path, r.store))]
        ELSE rate_limit_returned(q)

\* One request from the moment it is received to its first await that another
\* request can tell, outermost middleware first: request_context_middleware,
\* RateLimitMiddleware.dispatch (which reads the body of a login / register
\* path), AuthMiddleware.dispatch (which does nothing), LoggingMiddleware
\* (request log), TracingMiddleware (a span, when a tracer is set), then
\* gateway_handler: route match, authentication, and check_request_rate_limit
\* up to its GET. The awaits on the way (call_next of each middleware, the
\* body read of the rate limiter, authenticate, connect_redis) read and write
\* nothing that another request reads or writes. The route table has no
\* route of the "internal" service.
gateway_enter(key_loaded, tracing, rl_enabled, req) ==
    LET login_path == \/ contains(lower(req.path), "/auth/login")
                      \/ contains(lower(req.path), "/auth/register")
        login_identifier == extract_login_identifier(req.path, req.body)
        s0 == IF login_path THEN <<"context", "login_body_read">> ELSE <<"context">>
        s1 == IF tracing THEN s0 \o <<"logging", "tracing">> ELSE Append(s0, "logging")
        route == find_route(Routes, req.path, req.method)
        s2 == Append(s1, "route_match")
        auth == authenticate(req.credentials, key_loaded)
        s3 == IF route.auth_required THEN Append(s2, "authenticate") ELSE s2
        user_id == IF route.auth_required THEN auth.user_id ELSE NoUser
        limit == IF route.rate_limit # 0 THEN route.rate_limit
                 ELSE rate_limit_per_minute
        p0 == [NoGatewayRequest EXCEPT
                  !.req = [req EXCEPT !.credentials = IF route.auth_required THEN @
                                                      ELSE Unread],
                  !.route = route, !.reads = IF login_path THEN 1 ELSE 0,
                  !.steps = s2]
        p1 == [p0 EXCEPT !.steps = s3]
        p2 == [p1 EXCEPT !.user_id = user_id, !.limit = limit,
                         !.identifier = get_identifier(user_id, login_identifier,
                                                       NoUser, req.client_ip),
                         !.remaining = limit]
    IN  IF route = NoRouteConfig THEN answered(p0, 404)
        ELSE IF route.auth_required /\ auth.status # 0 THEN answered(p1, auth.status)
        ELSE IF route.auth_required /\ auth.user_id = NoUser THEN answered(p1, 401)
        ELSE IF ~rl_enabled THEN rate_limit_returned(p2)
        ELSE [p2 EXCEPT !.pc = "get"]

\* from the reply of the GET of check_rate_limit to the next await
gateway_get_answered(kv, t, mysql_enabled, p, fault) ==
    LET g == check_rate_limit_get(kv, p.identifier, p.limit, SecondsPerMinute,
                                  p.route.path, fault)
    IN  IF g.next = "pipeline" THEN [p EXCEPT !.pc = "pipeline"]
        ELSE fast_tier_answered(p, g.r, t, mysql_enabled)

\* from the reply of the pipeline (INCR, EXPIRE) of check_rate_limit, applied
\* at time t, to the next await
gateway_pipeline_answered(kv, t, mysql_enabled, p, fault) ==
    LET r == check_rate_limit_pipeline(kv, t, p.identifier, p.limit,
                                       SecondsPerMinute, p.route.path, fault)
    IN  [p |-> fast_tier_answered(p, r, t, mysql_enabled), kv |-> r.kv]

\* the durable write awaited by check_rate_limit resumes from its await; when
\* it has ended, check_rate_limit returns to the handler
gateway_write_step(kv, mysql_enabled, p, fault) ==
    LET w == RateLimitStorage_step(p.write, fault)
        fast == [allowed |-> p.allowed, remaining |-> p.remaining, failed |-> FALSE,
                 store |-> p.write.row.request_count, kv |-> kv]
        r == check_rate_limit_durable(fast, kv, p.limit, mysql_enabled, w.outcome)
    IN  IF w.pc = "done"
        THEN rate_limit_returned([p EXCEPT !.write = w, !.allowed = r.allowed,
                                           !.remaining = r.remaining])
        ELSE [p EXCEPT !.write = w]

\* gateway_handler from the answer of service discovery through the load
\* balancer to `await request.body()`
gateway_discovered(p, instances) ==
    LET q == [p EXCEPT !.steps = Append(@, "discovery"), !.instances = instances]
        q1 == [q EXCEPT !.steps = Append(@, "load_balance")]
    IN  IF Len(instances) = 0 THEN answered(q, 502)
        ELSE IF select_instance(instances) = NoInstance THEN answered(q1, 503)
        ELSE [q1 EXCEPT !.pc = "body"]

\* gateway_handler from the reply of request.body() into
\* ProxyService.forward_request, at time t, up to the backend request. The
\* handler asks the request for its body again (request.body(), not
\* request.state._body): where the framework replays a body that a middleware
\* has read, it gets the same bytes; where it does not, the read goes to the
\* transport a second time, finds nothing and fails the request. In
\* forward_request the breaker of the service is made if there is none, and
\* call_async lets the call through, or raises and the handler answers 502
gateway_body_read(breakers, t, replay, cb_enabled, settings, p) ==
    LET login_path == \/ contains(lower(p.req.path), "/auth/login")
                      \/ contains(lower(p.req.path), "/auth/register")
        q == [p EXCEPT !.steps = Append(@, "body_read"),
                       !.reads = IF login_path /\ replay THEN 1 ELSE @ + 1]
        service_name == IF p.route.service # "" THEN p.route.service ELSE "unknown"
        b0 == get_circuit_breaker(breakers, service_name, settings)
        e == enter(b0, t)
    IN  IF login_path /\ ~replay
        THEN [p |-> answered([q EXCEPT !.raised = TRUE], 500), breakers |-> breakers]
        ELSE IF cb_enabled /\ e.rejected
        THEN [p |-> answered([q EXCEPT !.steps = Append(@, "breaker_reject")], 502),
              breakers |-> put_circuit_breaker(breakers, service_name, e.cb)]
        ELSE [p |-> [q EXCEPT !.pc = "backend", !.steps = Append(@, "backend_call"),
                              !.forwarded = p.req.body,
                              !.retry = execute_async_enter],
              breakers |-> put_circuit_breaker(breakers, service_name,
                                               IF cb_enabled THEN e.cb ELSE b0)]

\* forward_request, and then the handler, from the moment the retry loop has
\* moved on to q (the backend has answered, or the sleep is over), at time t:
\* call_async settles the breaker, as it is by then, when the loop has
\* ended, and the handler answers with the response or with 502
gateway_forward_resumed(breakers, t, cb_enabled, settings, p, q) ==
    LET service_name == IF p.route.service # "" THEN p.route.service ELSE "unknown"
        b0 == get_circuit_breaker(breakers, service_name, settings)
        b1 == IF cb_enabled THEN settle_forward(b0, t, q) ELSE b0
        p1 == [p EXCEPT !.retry = q]
    IN  [p |-> IF q.pc = "returned" THEN answered(p1, 200)
               ELSE IF q.pc = "raised" THEN answered(p1, 502)
               ELSE [p1 EXCEPT !.pc = IF q.pc = "call" THEN "backend" ELSE q.pc],
         breakers |-> put_circuit_breaker(breakers, service_name, b1)]

Methods == {"GET", "POST"}
Paths == {"/items", "/auth/login", "/Auth/Login", "/zz"}

Requests ==
    {ClientRequest(method, path, credentials, body, "10.0.0.1", trace_header) :
        method \in Methods, path \in Paths, credentials \in Credentials,
        body \in Bodies, trace_header \in {NoHeader, "client-trace"}}

\* the requests that are made while another is being served: a GET of /items
\* by user u1 and a login of alice
OverlappingRequests ==
    {ClientRequest("GET", "/items", "valid", EmptyBody, "10.0.0.1", NoHeader),
     ClientRequest("POST", "/auth/login", "none", AliceBody, "10.0.0.1", NoHeader)}

\* what the backend does with a request
BackendOutcomes == {Ok, "ConnectError"}

\* the requests served at the same time
GatewayRequests == 1..MaxGatewayRequests

\* The application as committed does not start: `RateLimitMiddleware()` and
\* `AuthMiddleware()` in main.py are made without the app that the classes
\* of src/app/middleware/rate_limit.py and
\* src/gateway-service/app/middleware/auth.py ask for, and the
\* LoggingMiddleware of src/app/middleware/logging.py cannot be given one by
\* add_middleware, so that `import app.main` raises TypeError and no request
\* is served (gateway_started = FALSE). The pipeline runs where the
\* middleware objects are made with the arguments their classes take
\* (gateway_started = TRUE). The durable tier of the rate limiter is on or
\* off, its writes awaited (RATE_LIMIT_MYSQL_ASYNC=false, the default).
GWSetup(mysql_enabled) ==
    /\ CBCIdle
    /\ DWIdle
    /\ ProxyIdle
    /\ CBIdle
    /\ TMIdle
    /\ LBIdle
    /\ RouterIdle
    /\ rate_limit_enabled = TRUE
    /\ rate_limit_mysql_enabled \in mysql_enabled
    /\ rate_limit_mysql_async = FALSE
    /\ rl_args = [limit |-> 0, window_seconds |-> 0, route_path |-> NoRoute]
    /\ redis_rl = << >>
    /\ rl_time = 0
    /\ mysql_records = {}
    /\ background_tasks = << >>
    /\ rl_seen = << >>
    /\ rl_last = [op |-> "init"]
    /\ rl_calls = << >>
    /\ rl_admitted = << >>
    /\ rl_cleanup = [pc |-> "none"]
    /\ retry_enabled \in BOOLEAN
    /\ retry_handler = RetryHandler(0, 0, 0, {})
    /\ retry_last = [op |-> "init"]
    /\ retry_calls = << >>
    /\ retry_time = 0
    /\ gateway_started \in BOOLEAN
    /\ public_key_loaded \in BOOLEAN
    /\ tracer_set \in BOOLEAN
    /\ body_replay \in BOOLEAN
    /\ circuit_breakers = << >>
    /\ circuit_breaker_settings \in GatewayBreakerSettings
    /\ gw_requests = [r \in GatewayRequests |-> NoGatewayRequest]
    /\ gw_received = 0
    /\ gw_last = [op |-> "init"]

GWInit == GWSetup(BOOLEAN)

\* what the steps of a request leave as it is
gwSettings == <<gateway_started, public_key_loaded, tracer_set, body_replay,
                circuit_breaker_settings>>

\* request r has taken a step that took it to p, the counters to kv, the
\* rows of the durable tier to rows and the breakers to breakers: a request
\* that is answered leaves the pipeline
GatewayStep(r, p, kv, rows, breakers) ==
    LET q == [p EXCEPT !.counters_changed = @ \/ kv # redis_rl,
                       !.breakers_changed = @ \/ breakers # circuit_breakers]
    IN  /\ q.pc = "sleep" => q.retry.wake <= MaxGatewayTime
        /\ redis_rl' = kv
        /\ mysql_records' = rows
        /\ circuit_breakers' = breakers
        /\ IF q.pc = "answered"
           THEN /\ gw_requests' = [gw_requests EXCEPT ![r] = NoGatewayRequest]
                /\ gw_last' = Answer(q)
           ELSE /\ gw_requests' = [gw_requests EXCEPT ![r] = q]
                /\ gw_last' = [op |-> "step", route |-> q.route]
        /\ UNCHANGED gwSettings
        /\ UNCHANGED <<cbVars, tmVars, rtVars, lbVars, routerVars, proxyVars, dwVars,
                       cbcVars>>
        /\ UNCHANGED <<rate_limit_enabled, rate_limit_mysql_enabled,
                       rate_limit_mysql_async, rl_args, rl_time, background_tasks,
                       rl_seen, rl_last, rl_calls, rl_admitted, rl_cleanup>>

\* request r is received, and runs until it is answered or has sent the GET
\* of the rate limiter
Request(r, req) ==
    /\ gateway_started
    /\ gw_received < MaxGatewayReceived
    /\ gw_received' = gw_received + 1
    /\ r = free_slot(GatewayRequests,
                     {o \in GatewayRequests : gw_requests[o].pc # "idle"})
    /\ GatewayStep(r, gateway_enter(public_key_loaded, tracer_set, rate_limit_enabled,
                                    req),
                   redis_rl, mysql_records, circuit_breakers)

\* the fast KV answers the GET of request r
RedisGetAnswers(r, fault) ==
    /\ gw_requests[r].pc = "get"
    /\ UNCHANGED gw_received
    /\ GatewayStep(r, gateway_get_answered(redis_rl, rl_time, rate_limit_mysql_enabled,
                                           gw_requests[r], fault),
                   redis_rl, mysql_records, circuit_breakers)

\* the fast KV runs the pipeline of request r and answers it
RedisPipelineAnswers(r, fault) ==
    /\ gw_requests[r].pc = "pipeline"
    /\ UNCHANGED gw_received
    /\ \E s \in {gateway_pipeline_answered(redis_rl, rl_time, rate_limit_mysql_enabled,
                                           gw_requests[r], fault)} :
          GatewayStep(r, s.p, s.kv, mysql_records, circuit_breakers)

\* the durable write that request r awaits resumes from its await
DurableWriteResumes(r, fault) ==
    /\ gw_requests[r].pc = "write"
    /\ UNCHANGED gw_received
    /\ fault \in faults_at(gw_requests[r].write.pc)
    /\ \E p \in {gateway_write_step(redis_rl, rate_limit_mysql_enabled, gw_requests[r],
                                    fault)} :
          GatewayStep(r, p, redis_rl,
                      IF committed(gw_requests[r].write, p.write)
                      THEN upsert(mysql_records, p.write.row) ELSE mysql_records,
                      circuit_breakers)

\* service discovery answers request r
DiscoveryAnswers(r, instances) ==
    /\ gw_requests[r].pc = "discovery"
    /\ UNCHANGED gw_received
    /\ GatewayStep(r, gateway_discovered(gw_requests[r], instances),
                   redis_rl, mysql_records, circuit_breakers)

\* the body of request r is there
BodyArrives(r) ==
    /\ gw_requests[r].pc = "body"
    /\ UNCHANGED gw_received
    /\ \E s \in {gateway_body_read(circuit_breakers, rl_time, body_replay,
                                   circuit_breaker_enabled, circuit_breaker_settings,
                                   gw_requests[r])} :
          GatewayStep(r, s.p, redis_rl, mysql_records, s.breakers)

\* the backend answers the request that request r was forwarded as
BackendResponds(r, outcome) ==
    /\ gw_requests[r].pc = "backend"
    /\ UNCHANGED gw_received
    /\ \E s \in {gateway_forward_resumed(circuit_breakers, rl_time,
                    circuit_breaker_enabled, circuit_breaker_settings, gw_requests[r],
                    execute_async_answered(retry_enabled, retry_handler,
                                           gw_requests[r].retry, outcome, rl_time))} :
          GatewayStep(r, s.p, redis_rl, mysql_records, s.breakers)

\* the sleep between two attempts of request r is over
RetrySleepEnds(r) ==
    /\ gw_requests[r].pc = "sleep"
    /\ gw_requests[r].retry.wake <= rl_time
    /\ UNCHANGED gw_received
    /\ \A o \in GatewayRequests :
          gw_requests[o].pc = "sleep" =>
             gw_requests[r].retry.wake <= gw_requests[o].retry.wake
    /\ \E s \in {gateway_forward_resumed(circuit_breakers, rl_time,
                    circuit_breaker_enabled, circuit_breaker_settings, gw_requests[r],
                    execute_async_woken(retry_handler, gw_requests[r].retry))} :
          GatewayStep(r, s.p, redis_rl, mysql_records, s.breakers)

\* a second passes while a request sleeps (the windows of the rate limiter
\* and the cool-off of the breakers last longer than the runs of the model)
GWTick ==
    /\ rl_time < MaxGatewayTime
    /\ \E r \in GatewayRequests : /\ gw_requests[r].pc = "sleep"
                                  /\ rl_time < gw_requests[r].retry.wake
    /\ rl_time' = rl_time + 1
    /\ redis_rl' = redis_purge(redis_rl, rl_time')
    /\ gw_last' = [op |-> "tick", route |-> NoRouteConfig]
    /\ UNCHANGED <<gwSettings, circuit_breakers, gw_requests, gw_received>>
    /\ UNCHANGED <<cbVars, tmVars, rtVars, lbVars, routerVars, proxyVars, dwVars, cbcVars>>
    /\ UNCHANGED <<rate_limit_enabled, rate_limit_mysql_enabled,
                   rate_limit_mysql_async, rl_args, mysql_records, background_tasks,
                   rl_seen, rl_last, rl_calls, rl_admitted, rl_cleanup>>

\* the steps of the requests under way
GatewaySteps(requests) ==
    \/ \E r \in requests : RedisGetAnswers(r, "none")
    \/ \E r \in requests : RedisPipelineAnswers(r, "none")
    \/ \E r \in requests, fault \in WriteFaults : DurableWriteResumes(r, fault)
    \/ \E r \in requests, instances \in InstanceLists : DiscoveryAnswers(r, instances)
    \/ \E r \in requests : BodyArrives(r)
    \/ \E r \in requests, outcome \in BackendOutcomes : BackendResponds(r, outcome)
    \/ \E r \in requests : RetrySleepEnds(r)
    \/ GWTick

\* every request of the model, one at a time
GWNext ==
    \/ \E req \in Requests : Request(1, req)
    \/ GatewaySteps({1})

SpecGW == GWInit /\ [][GWNext]_vars

\* requests that overlap
GWConcurrentInit ==
    /\ GWSetup(BOOLEAN)
    /\ gateway_started /\ public_key_loaded /\ tracer_set /\ body_replay

GWConcurrentNext ==
    \/ \E r \in GatewayRequests, req \in OverlappingRequests : Request(r, req)
    \/ GatewaySteps(GatewayRequests)

SpecGWConcurrent == GWConcurrentInit /\ [][GWConcurrentNext]_vars

----------------------------------------------------------------------------
(* Claims about the request pipeline, checked under SpecGW *)

Ran(step) == \E i \in DOMAIN gw_last.steps : gw_last.steps[i] = step

NoBackendNoBreaker == ~Ran("backend_call") /\ ~gw_last.breakers_changed

\* C10: a request that fails at a pipeline step is answered with that step's
\* status and triggers no later step. No matching route: 404 with no body
\* read, no authentication, no rate-limit counter change, no discovery and no
\* backend call. Missing or invalid credentials on an auth_required route: 401
\* and no rate-limit quota consumed. Rate-limit denial: 429; empty discovery:
\* 502; no healthy instance: 503, the three of them with no backend call and
\* no breaker update. A request dispatched to a backend on an auth_required
\* route carries a non-null UserContext.
C10_FailedStepStopsPipeline ==
    gw_last.op = "request" =>
      /\ gw_last.route = NoRouteConfig =>
            /\ gw_last.status = 404
            /\ ~Ran("login_body_read") /\ ~Ran("body_read")
            /\ ~Ran("authenticate") /\ ~Ran("rate_limit")
            /\ ~Ran("discovery") /\ ~Ran("backend_call")
            /\ ~gw_last.counters_changed
      /\ (gw_last.route.auth_required
            /\ gw_last.credentials \in {"none", "invalid", "no_sub"}) =>
            /\ gw_last.status = 401
            /\ ~Ran("rate_limit")
            /\ ~gw_last.counters_changed
      /\ gw_last.denied => gw_last.status = 429 /\ NoBackendNoBreaker
      /\ (Ran("discovery") /\ Len(gw_last.instances) = 0) =>
            gw_last.status = 502 /\ NoBackendNoBreaker
      /\ (Ran("load_balance") /\ select_instance(gw_last.instances) = NoInstance) =>
            gw_last.status = 503 /\ NoBackendNoBreaker
      /\ (Ran("backend_call") /\ gw_last.route.auth_required) =>
            gw_last.user_context # NoUser

\* the place of a stage in the steps of the last request (0: it did not begin)
StepIndex(step) ==
    IF Ran(step) THEN CHOOSE i \in DOMAIN gw_last.steps : gw_last.steps[i] = step
    ELSE 0

\* the order of the stages that the pipeline is to follow
StageOrder ==
    <<"context", "tracing", "logging", "route_match", "authenticate", "rate_limit",
      "backend_call">>

\* C11: for every request the stages that begin do so in the order context
\* injection, tracing span, request logging, route match, authentication,
\* rate-limit check, dispatch.
C11_StagesInOrder ==
    gw_last.op = "request" =>
      \A i, j \in DOMAIN StageOrder :
         (i < j /\ Ran(StageOrder[i]) /\ Ran(StageOrder[j])) =>
            StepIndex(StageOrder[i]) < StepIndex(StageOrder[j])

\* C12: for every request the body is read from the transport at most once,
\* and when the rate limiter has cached the body for login-identifier
\* extraction the bytes forwarded to the backend are the bytes the client sent.
C12_BodyReadOnce ==
    gw_last.op = "request" =>
      /\ gw_last.transport_reads <= 1
      /\ (Ran("login_body_read") /\ Ran("backend_call")) =>
            gw_last.forwarded = gw_last.sent

\* C13: for every request that reaches the dispatcher, the response's
\* X-Request-Id and X-Trace-Id are the request id and trace id of the request
\* context, and the outbound backend call carries the same two values,
\* whatever the tracing state and the route's extra headers.
C13_IdsPropagated ==
    (gw_last.op = "request" /\ Ran("backend_call")) =>
      /\ gw_last.response_headers["X-Request-Id"] = gw_last.context.request_id
      /\ gw_last.response_headers["X-Trace-Id"] = gw_last.context.trace_id
      /\ gw_last.outbound_headers["X-Request-Id"] = gw_last.context.request_id
      /\ gw_last.outbound_headers["X-Trace-Id"] = gw_last.context.trace_id

\* C23: there is one circuit breaker per service name, made at the first
\* request forwarded to the service, used again by every later one and never
\* replaced (a breaker that is open stays open while its timeout has not run
\* out), and a call for one service leaves the breakers of the others as
\* they were.
C23_OneBreakerPerService ==
    [][/\ DOMAIN circuit_breakers \subseteq DOMAIN circuit_breakers'
       /\ \A service \in DOMAIN circuit_breakers' :
             /\ service # gw_last'.route.service =>
                   /\ service \in DOMAIN circuit_breakers
                   /\ circuit_breakers'[service] = circuit_breakers[service]
             /\ (/\ service \in DOMAIN circuit_breakers
                 /\ circuit_breakers[service].state = "open") =>
                   circuit_breakers'[service].state = "open"]_gwVars

\* item-service's breaker is open; a request to auth-service has succeeded
C23_Witness ==
    /\ gw_last.op = "request"
    /\ gw_last.route.service = "auth-service"
    /\ gw_last.status = 200
    /\ DOMAIN circuit_breakers = {"item-service", "auth-service"}
    /\ circuit_breakers["item-service"].state = "open"
    /\ circuit_breakers["auth-service"].state = "closed"

----------------------------------------------------------------------------
(* Identifier resolution of the rate limiter, on its own *)

\* what request.state and the request hold when _get_identifier runs; "" is
\* an absent or empty value
UserIds == {NoUser, "42", "43", "44"}
LoginIdentifiers == {NoUser, "alice", "bob", "carol"}
ApiKeys == {NoUser, "k1", "k2", "k3"}
ClientIps == {NoUser, "10.0.0.1", "10.0.0.2", "10.0.0.3"}

IDInit ==
    /\ CBCIdle
    /\ DWIdle
    /\ ProxyIdle
    /\ CBIdle
    /\ RLIdle
    /\ TMIdle
    /\ RTIdle
    /\ LBIdle
    /\ RouterIdle
    /\ GWIdle

GetIdentifier(user_id, login_identifier, api_key, client_ip) ==
    /\ gw_last' = [op |-> "get_identifier", user_id |-> user_id,
                   login_identifier |-> login_identifier, api_key |-> api_key,
                   client_ip |-> client_ip,
                   identifier |-> get_identifier(user_id, login_identifier, api_key,
                                                 client_ip)]
    /\ UNCHANGED <<gateway_started, public_key_loaded, tracer_set, body_replay,
                   circuit_breakers, circuit_breaker_settings, gw_requests,
                   gw_received>>
    /\ UNCHANGED <<cbVars, rlVars, tmVars, rtVars, lbVars, routerVars, proxyVars, dwVars, cbcVars>>

IDNext ==
    \E user_id \in UserIds, login_identifier \in LoginIdentifiers,
       api_key \in ApiKeys, client_ip \in ClientIps :
       GetIdentifier(user_id, login_identifier, api_key, client_ip)

SpecID == IDInit /\ [][IDNext]_vars

\* C18: the identifier is the first non-empty of user:{user_id},
\* login:{login_identifier}, api_key:{API-key header}, ip:{client address}, in
\* this order; a source is used only when every source before it is empty.
C18_FirstNonEmptySource ==
    gw_last.op = "get_identifier" =>
      LET value == <<gw_last.user_id, gw_last.login_identifier, gw_last.api_key,
                     gw_last.client_ip>>
          prefix == <<"user:", "login:", "api_key:", "ip:">>
      IN  \A i \in 1..4 :
             (value[i] # NoUser /\ \A j \in 1..(i - 1) : value[j] = NoUser) =>
                gw_last.identifier = prefix[i] \o value[i]

\* no user and no login identifier, an API key and a client address: the key wins
C18_Witness ==
    /\ gw_last.op = "get_identifier"
    /\ gw_last.user_id = NoUser
    /\ gw_last.login_identifier = NoUser
    /\ gw_last.api_key = "k1"
    /\ gw_last.client_ip = "10.0.0.1"
    /\ gw_last.identifier = "api_key:k1"

----------------------------------------------------------------------------
(* Load balancer: src/gateway-service/app/core/load_balancer.py              *)

LoadBalancingStrategy ==
    {"round_robin", "least_connections", "weighted_round_robin", "random"}

\* ServiceInstance(url, weight, healthy) of src/app/core/discovery.py
WeightedInstance(url, weight, healthy) ==
    [url |-> url, weight |-> weight, healthy |-> healthy]

\* select_instance returning None
NoSelection == WeightedInstance("", 0, FALSE)

\* LoadBalancer.__init__
LoadBalancer(strategy) ==
    [strategy |-> strategy, round_robin_counters |-> << >>,
     connection_counts |-> << >>]

LBOutcome(lb, selected) == [balancer |-> lb, selected |-> selected]

healthy_instances_unfiltered(instances) == instances

\* healthy_instances = [inst for inst in instances if inst.healthy]
healthy_instances(instances) == SelectSeq(instances, LAMBDA inst : inst.healthy)

\* self.round_robin_counters[service_name], 0 when the key is first used
round_robin_counter(lb, service_name) ==
    IF service_name \in DOMAIN lb.round_robin_counters
    THEN lb.round_robin_counters[service_name]
    ELSE 0

round_robin_index_first(counter, length) == 0

\* index = self.round_robin_counters[service_name] % len(instances)
round_robin_index(counter, length) == counter % length

\* LoadBalancer._round_robin
round_robin(lb, instances, service_name) ==
    LET counter == round_robin_counter(lb, service_name)
        index   == round_robin_index(counter, Len(instances))
    IN  LBOutcome([lb EXCEPT !.round_robin_counters =
                                update(@, service_name :> (counter + 1))],
                  instances[index + 1])

\* LoadBalancer._least_connections: min() returns the first minimal instance
least_connections(lb, instances, service_name) ==
    LET counts == IF service_name \in DOMAIN lb.connection_counts
                  THEN lb.connection_counts[service_name]
                  ELSE [u \in {instances[i].url : i \in DOMAIN instances} |-> 0]
        get(url) == IF url \in DOMAIN counts THEN counts[url] ELSE 0
        first == CHOOSE i \in DOMAIN instances :
                    /\ \A j \in DOMAIN instances :
                          get(instances[i].url) <= get(instances[j].url)
                    /\ \A j \in 1..(i - 1) :
                          get(instances[j].url) > get(instances[i].url)
        selected == instances[first]
    IN  LBOutcome([lb EXCEPT !.connection_counts =
                      update(@, service_name :>
                          update(counts, selected.url :> (get(selected.url) + 1)))],
                  selected)

\* sum(inst.weight for inst in instances)
RECURSIVE total_weight(_)
total_weight(instances) ==
    IF instances = << >> THEN 0
    ELSE Head(instances).weight + total_weight(Tail(instances))

\* LoadBalancer._weighted_round_robin
weighted_round_robin(lb, instances, service_name) ==
    LET total   == total_weight(instances)
        counter == round_robin_counter(lb, service_name)
        current == counter % total
        reached == {i \in DOMAIN instances :
                       current < total_weight(SubSeq(instances, 1, i))}
        first   == CHOOSE i \in reached : \A j \in reached : i <= j
    IN  IF total = 0 THEN round_robin(lb, instances, service_name)
        ELSE LBOutcome([lb EXCEPT !.round_robin_counters =
                                     update(@, service_name :> (counter + 1))],
                       IF reached = {} THEN instances[1] ELSE instances[first])

\* LoadBalancer._random: random.choice may return any element
random(lb, instances) == {LBOutcome(lb, instances[i]) : i \in DOMAIN instances}

\* LoadBalancer.select_instance: the outcomes the call can have
LoadBalancer_select_instance(lb, instances, service_name) ==
    LET healthy == healthy_instances(instances)
    IN  IF Len(healthy) = 0 THEN {LBOutcome(lb, NoSelection)}
        ELSE IF Len(healthy) = 1 THEN {LBOutcome(lb, healthy[1])}
        ELSE IF lb.strategy = "round_robin"
             THEN {round_robin(lb, healthy, service_name)}
        ELSE IF lb.strategy = "least_connections"
             THEN {least_connections(lb, healthy, service_name)}
        ELSE IF lb.strategy = "weighted_round_robin"
             THEN {weighted_round_robin(lb, healthy, service_name)}
        ELSE IF lb.strategy = "random"
             THEN random(lb, healthy)
        ELSE {round_robin(lb, healthy, service_name)}

\* LoadBalancer.release_connection
release_connection(lb, service_name, instance_url) ==
    IF /\ service_name \in DOMAIN lb.connection_counts
       /\ instance_url \in DOMAIN lb.connection_counts[service_name]
       /\ lb.connection_counts[service_name][instance_url] > 0
    THEN [lb EXCEPT !.connection_counts[service_name][instance_url] = @ - 1]
    ELSE lb

LBServices == {"svc-a", "svc-b"}

LBUrls == {"http://a1", "http://a2", "http://a3"}

LBInstanceLists ==
    { << WeightedInstance("http://a1", 1, TRUE), WeightedInstance("http://a2", 0, TRUE),
         WeightedInstance("http://a3", 2, TRUE) >>,
      << WeightedInstance("http://a1", 1, FALSE), WeightedInstance("http://a2", 1, TRUE) >>,
      << WeightedInstance("http://a1", 1, FALSE) >>,
      << WeightedInstance("http://a1", 0, TRUE), WeightedInstance("http://a2", 0, TRUE) >>,
      << WeightedInstance("http://a1", 0, TRUE), WeightedInstance("http://a2", 1, FALSE),
         WeightedInstance("http://a3", 2, TRUE) >> }

LBInit ==
    /\ CBCIdle
    /\ DWIdle
    /\ ProxyIdle
    /\ CBIdle
    /\ RLIdle
    /\ TMIdle
    /\ GWIdle
    /\ RTIdle
    /\ RouterIdle
    /\ load_balancer \in {LoadBalancer(strategy) : strategy \in LoadBalancingStrategy}
    /\ lb_history = << >>
    /\ lb_in_flight = << >>
    /\ lb_last = [op |-> "init"]

\* one select_instance call on the shared balancer
Select(service_name, instances) ==
    /\ Len(lb_history) < MaxSelections
    /\ \E r \in LoadBalancer_select_instance(load_balancer, instances, service_name) :
        /\ load_balancer' = r.balancer
        /\ lb_history' = Append(lb_history,
                [service_name |-> service_name, instances |-> instances,
                 selected |-> r.selected, before |-> load_balancer])
    /\ UNCHANGED <<lb_in_flight, lb_last, notLB>>

\* one release_connection call on the shared balancer
Release(service_name, instance_url) ==
    /\ load_balancer' = release_connection(load_balancer, service_name, instance_url)
    /\ UNCHANGED <<lb_history, lb_in_flight, lb_last, notLB>>

LBNext ==
    \/ \E service_name \in LBServices, instances \in LBInstanceLists :
          Select(service_name, instances)
    \/ \E service_name \in LBServices, instance_url \in LBUrls :
          Release(service_name, instance_url)

SpecLB == LBInit /\ [][LBNext]_vars

\* The load balancing step of the gateway handler (src/app/main.py:206-254).
\* The handler builds a LoadBalancer() of its own for every request, selects
\* with it, forwards and answers; it has no call of release_connection.  Here
\* load_balancer is the object LoadBalancer() builds under the settings.

InFlight(service_name, url) ==
    IF <<service_name, url>> \in DOMAIN lb_in_flight
    THEN lb_in_flight[<<service_name, url>>]
    ELSE 0

RECURSIVE Sum(_, _)
Sum(f, keys) ==
    IF keys = {} THEN 0
    ELSE LET k == CHOOSE k \in keys : TRUE IN f[k] + Sum(f, keys \ {k})

LBHandlerInit ==
    /\ CBCIdle
    /\ DWIdle
    /\ ProxyIdle
    /\ CBIdle
    /\ RLIdle
    /\ TMIdle
    /\ GWIdle
    /\ RTIdle
    /\ RouterIdle
    /\ load_balancer \in {LoadBalancer(strategy) : strategy \in LoadBalancingStrategy}
    /\ lb_history = << >>
    /\ lb_in_flight = << >>
    /\ lb_last = [op |-> "init"]

\* the handler up to its await of proxy_service.forward_request, or its 503
HandlerSelect(service_name, instances) ==
    /\ Sum(lb_in_flight, DOMAIN lb_in_flight) < MaxHandlerRequests
    /\ \E r \in LoadBalancer_select_instance(LoadBalancer(load_balancer.strategy),
                                            instances, service_name) :
        /\ lb_in_flight' =
              IF r.selected = NoSelection THEN lb_in_flight
              ELSE update(lb_in_flight, <<service_name, r.selected.url>> :>
                              (InFlight(service_name, r.selected.url) + 1))
        /\ lb_last' = [op |-> "select", service_name |-> service_name,
                       instances |-> instances, selected |-> r.selected,
                       status |-> IF r.selected = NoSelection THEN 503 ELSE 0,
                       balancer |-> r.balancer]
    /\ UNCHANGED <<load_balancer, lb_history, notLB>>

\* the rest of the handler: the backend answered (or failed) and the response
\* is returned; the request's balancer is dropped with the handler's frame
HandlerFinish(service_name, url) ==
    /\ InFlight(service_name, url) > 0
    /\ lb_in_flight' = update(lb_in_flight, <<service_name, url>> :>
                                 (InFlight(service_name, url) - 1))
    /\ lb_last' = [op |-> "finish", service_name |-> service_name, url |-> url]
    /\ UNCHANGED <<load_balancer, lb_history, notLB>>

LBHandlerNext ==
    \/ \E service_name \in LBServices, instances \in LBInstanceLists :
          HandlerSelect(service_name, instances)
    \/ \E service_name \in LBServices, url \in LBUrls :
          HandlerFinish(service_name, url)

SpecLBHandler == LBHandlerInit /\ [][LBHandlerNext]_vars

----------------------------------------------------------------------------
(* Claims about the load balancer *)

\* the positions of the healthy instances of a list
HealthyAt(instances) == {i \in DOMAIN instances : instances[i].healthy}

\* C24: under every strategy select_instance never returns an instance whose
\* healthy flag is false, it returns nothing exactly when the list holds no
\* healthy instance, and when exactly one instance is healthy it returns that one.
C24_OnlyHealthySelected ==
    \A n \in DOMAIN lb_history :
        LET e == lb_history[n]
            at == HealthyAt(e.instances)
        IN  /\ e.selected # NoSelection =>
                \E i \in at : e.selected = e.instances[i]
            /\ (e.selected = NoSelection) <=> (at = {})
            /\ \A i \in at : (at = {i}) => e.selected = e.instances[i]

\* a list with an unhealthy instance between two healthy ones was balanced under
\* a strategy other than round robin, a single healthy instance was returned,
\* and a list without a healthy instance gave nothing
C24_Witness ==
    /\ load_balancer.strategy # "round_robin"
    /\ \E n \in DOMAIN lb_history :
          /\ Cardinality(HealthyAt(lb_history[n].instances)) = 2
          /\ Len(lb_history[n].instances) = 3
          /\ lb_history[n].selected.healthy
    /\ \E n \in DOMAIN lb_history :
          /\ Cardinality(HealthyAt(lb_history[n].instances)) = 1
          /\ Len(lb_history[n].instances) = 2
          /\ lb_history[n].selected.healthy
    /\ \E n \in DOMAIN lb_history : lb_history[n].selected = NoSelection

\* the select_instance calls made for one service, in order
ServiceCalls(service_name) ==
    SelectSeq(lb_history, LAMBDA e : e.service_name = service_name)

\* every call passed the same list, of two or more instances, all of them healthy
FixedHealthyList(calls) ==
    /\ calls # << >>
    /\ \A k \in DOMAIN calls : calls[k].instances = calls[1].instances
    /\ Len(calls[1].instances) >= 2
    /\ HealthyAt(calls[1].instances) = DOMAIN calls[1].instances

\* C25: under round robin, with a fixed list of N >= 2 healthy instances, the
\* k-th selection (k = 0, 1, 2, ...) for a service on one balancer returns
\* instances[k mod N], any N consecutive selections return every instance
\* exactly once, and each service name has its own counter.
C25_RoundRobinOrder ==
    load_balancer.strategy = "round_robin" =>
        \A service_name \in LBServices :
            LET calls == ServiceCalls(service_name)
                instances == calls[1].instances
                N == Len(instances)
            IN  FixedHealthyList(calls) =>
                    /\ \A k \in 0..(Len(calls) - 1) :
                          calls[k + 1].selected = instances[(k % N) + 1]
                    /\ \A from \in 1..(Len(calls) - N + 1) :
                          {calls[k].selected : k \in from..(from + N - 1)} =
                              {instances[i] : i \in DOMAIN instances}

\* a service was balanced twice over a fixed healthy list, with a selection for
\* the other service in between, and the second selection moved on
C25_Witness ==
    /\ load_balancer.strategy = "round_robin"
    /\ Len(lb_history) = 3
    /\ lb_history[1].service_name = lb_history[3].service_name
    /\ lb_history[2].service_name # lb_history[1].service_name
    /\ FixedHealthyList(ServiceCalls(lb_history[1].service_name))
    /\ HealthyAt(lb_history[2].instances) = DOMAIN lb_history[2].instances
    /\ lb_history[3].selected = lb_history[3].instances[2]
    /\ lb_history[2].selected = lb_history[2].instances[1]

\* the selection of one call respects weight 0: an instance of weight 0 is
\* returned only when no other healthy instance of the list has a positive weight
ZeroWeightLastResort(e) ==
    (e.selected # NoSelection /\ e.selected.weight = 0) =>
        ~ \E i \in HealthyAt(e.instances) : e.instances[i].weight > 0

\* C26: an instance with weight 0 is never selected while some other healthy
\* instance with a positive weight is available; it is selected only when
\* there is no other candidate.
C26_ZeroWeightNeverPreferred ==
    \A n \in DOMAIN lb_history : ZeroWeightLastResort(lb_history[n])

\* what the code does keep: the weighted round-robin strategy walks the
\* cumulative weights, so it passes over an instance of weight 0
ZeroWeightSkippedWhenWeighted ==
    load_balancer.strategy = "weighted_round_robin" => C26_ZeroWeightNeverPreferred

\* the connection counter a balancer holds for an instance of a service
ConnectionCount(lb, service_name, url) ==
    IF /\ service_name \in DOMAIN lb.connection_counts
       /\ url \in DOMAIN lb.connection_counts[service_name]
    THEN lb.connection_counts[service_name][url]
    ELSE 0

\* C27: under least connections every selection increments the counter of the
\* instance it picks and the handler releases it after the response, so the
\* counter of an instance equals the number of requests in flight to it.
C27_CounterEqualsInFlight ==
    (/\ lb_last.op = "select"
     /\ lb_last.balancer.strategy = "least_connections"
     /\ lb_last.selected # NoSelection) =>
        ConnectionCount(lb_last.balancer, lb_last.service_name, lb_last.selected.url)
            = InFlight(lb_last.service_name, lb_last.selected.url)

\* what the code does keep: no counter of a shared balancer goes below zero,
\* whatever selections and releases are made on it
CountersNeverNegative ==
    \A service_name \in DOMAIN load_balancer.connection_counts :
        \A url \in DOMAIN load_balancer.connection_counts[service_name] :
            load_balancer.connection_counts[service_name][url] >= 0

----------------------------------------------------------------------------
(* Router: src/app/core/router.py, src/gateway-service/app/models/route.py   *)

\* str.split("/")
RECURSIVE split(_)
split(s) ==
    LET slashes == {i \in 1..Len(s) : SubSeq(s, i, i) = "/"}
        first == CHOOSE i \in slashes : \A j \in slashes : i <= j
    IN  IF slashes = {} THEN << s >>
        ELSE << SubSeq(s, 1, first - 1) >> \o split(SubSeq(s, first + 1, Len(s)))

\* Router._calculate_priority
calculate_priority(path) ==
    (IF ~ (endswith(path, "/*") \/ endswith(path, "/**")) THEN 1000 ELSE 0)
        + Len(split(path)) * 10
        - (IF contains(path, "{") THEN 50 ELSE 0)

\* Route(config=route_config, pattern=route_config.path, priority=...)
Route(config) ==
    [config |-> config, pattern |-> config.path,
     priority |-> calculate_priority(config.path)]

\* list.sort(key=priority, reverse=True): stable, routes of equal priority keep
\* the order of the file
RECURSIVE sort_by_priority(_)
sort_by_priority(routes) ==
    IF routes = << >> THEN << >>
    ELSE LET front == sort_by_priority(SubSeq(routes, 1, Len(routes) - 1))
             r == routes[Len(routes)]
             k == Cardinality({i \in DOMAIN front : front[i].priority >= r.priority})
         IN  SubSeq(front, 1, k) \o << r >> \o SubSeq(front, k + 1, Len(front))

\* Router.__init__ / Router._load_routes over the route configs of a file
Router(file) ==
    [file |-> file,
     routes |-> sort_by_priority([i \in DOMAIN file |-> Route(file[i])])]

NoRouteFound == [config |-> NoRouteConfig, pattern |-> "", priority |-> 0]

\* Router.find_route: the first route of Router.routes that matches
Router_find_route(routes, path, method) ==
    LET hits == {i \in DOMAIN routes : matches(routes[i].config, path, method)}
    IN  IF hits = {} THEN NoRouteFound
        ELSE routes[CHOOSE i \in hits : \A j \in hits : i <= j]

\* Route.extract_path_params: zip the parts, a later {name} replaces an earlier
extract_path_params(config, path) ==
    LET route_parts == split(config.path)
        path_parts == split(path)
        zipped == 1..Min(Len(route_parts), Len(path_parts))
        at == {i \in zipped : /\ startswith(route_parts[i], "{")
                              /\ endswith(route_parts[i], "}")}
        name(i) == SubSeq(route_parts[i], 2, Len(route_parts[i]) - 1)
    IN  [n \in {name(i) : i \in at} |->
            path_parts[CHOOSE i \in at : /\ name(i) = n
                                         /\ \A j \in at : name(j) = n => j <= i]]

PlainRoute(path, service, methods) ==
    RouteConfig(path, service, methods, TRUE, 100, NoHeaders)

\* the routes files of the model, each in the order of the file
RouteFiles ==
    { << PlainRoute("/a/b", "X", {"GET"}), PlainRoute("/a/**", "Y", {"GET"}) >>,
      << PlainRoute("/a/**", "Y", {"GET"}), PlainRoute("/a/b", "X", {"GET"}),
         PlainRoute("/a/b", "Z", {"GET"}) >>,
      << PlainRoute("/a", "X", {"GET"}),
         PlainRoute("/a/{b}/c/d/e/f/g", "Y", {"GET"}) >>,
      << PlainRoute("/projects/{project_id}", "P", {"GET"}),
         PlainRoute("/projects", "Q", {"GET", "POST"}),
         PlainRoute("/projects/*", "R", {"GET"}) >> }

RouterPaths ==
    {"/a", "/a/b", "/a/c", "/a/{b}/c/d/e/f/g", "/projects", "/projects/123", "/zz"}

RouterMethods == {"GET", "POST", "DELETE"}

RouterInit ==
    /\ CBCIdle
    /\ DWIdle
    /\ ProxyIdle
    /\ CBIdle
    /\ RLIdle
    /\ TMIdle
    /\ GWIdle
    /\ RTIdle
    /\ LBIdle
    /\ router \in {Router(file) : file \in RouteFiles}
    /\ router_last = [op |-> "init"]

\* the routing step of the gateway handler (src/app/main.py:144-155)
FindRoute(path, method) ==
    /\ \E route \in {Router_find_route(router.routes, path, method)} :
          router_last' =
              [op |-> "find_route", path |-> path, method |-> method,
               route |-> route,
               status |-> IF route = NoRouteFound THEN 404 ELSE 0,
               path_params |-> IF route = NoRouteFound THEN << >>
                               ELSE extract_path_params(route.config, path)]
    /\ UNCHANGED <<router, notRouter>>

\* Route.matches and Route.extract_path_params called on one route
Matches(i, path, method) ==
    /\ i \in DOMAIN router.routes
    /\ router_last' =
          [op |-> "matches", path |-> path, method |-> method,
           route |-> router.routes[i],
           result |-> matches(router.routes[i].config, path, method),
           path_params |-> extract_path_params(router.routes[i].config, path)]
    /\ UNCHANGED <<router, notRouter>>

\* no step of _load_routes raises
NoLoadFault == "none"

\* what can go wrong in _load_routes: "open" is open() or yaml.safe_load
\* raising, "entry" is RouteConfig(**route_data) raising on the second entry
LoadFaults == {NoLoadFault, "open", "entry"}

\* Router._load_routes on the list self.routes already holds: the entries are
\* appended one by one and sorted at the end; any exception leaves the list
\* as far as it got and is raised again as RuntimeError
load_routes(routes, file, fault) ==
    IF fault = "open" THEN [routes |-> routes, raised |-> TRUE]
    ELSE IF fault = "entry" /\ Len(file) >= 2
    THEN [routes |-> routes \o << Route(file[1]) >>, raised |-> TRUE]
    ELSE [routes |-> sort_by_priority(routes \o [i \in DOMAIN file |-> Route(file[i])]),
          raised |-> FALSE]

\* Router.reload_routes: self.routes.clear(), then self._load_routes()
reload_routes(file, fault) == load_routes(<< >>, file, fault)

\* Router.reload_routes, with the routes file as it is on disk at that time
ReloadRoutes(file, fault) ==
    /\ \E loaded \in {reload_routes(file, fault)} :
        /\ router' = [file |-> file, routes |-> loaded.routes]
        /\ router_last' = [op |-> "reload_routes", before |-> router.routes,
                           fault |-> fault, raised |-> loaded.raised]
    /\ UNCHANGED notRouter

RouterNext ==
    \/ \E path \in RouterPaths, method \in RouterMethods : FindRoute(path, method)
    \/ \E i \in 1..3, path \in RouterPaths, method \in RouterMethods :
          Matches(i, path, method)
    \/ \E file \in RouteFiles, fault \in LoadFaults : ReloadRoutes(file, fault)

SpecRouter == RouterInit /\ [][RouterNext]_vars

----------------------------------------------------------------------------
(* Claims about the router *)

\* the class of a route pattern: 3 exact, 2 parameterized, 1 wildcard
RouteClass(path) ==
    IF endswith(path, "/*") \/ endswith(path, "/**") THEN 1
    ELSE IF contains(path, "{") THEN 2
    ELSE 3

\* route i of the file is to be preferred to route j
Preferred(file, i, j) ==
    LET ci == RouteClass(file[i].path)
        cj == RouteClass(file[j].path)
        ni == Len(split(file[i].path))
        nj == Len(split(file[j].path))
    IN  \/ ci > cj
        \/ ci = cj /\ ni > nj
        \/ ci = cj /\ ni = nj /\ i < j

\* the routes of the file that match a request
Matching(file, path, method) ==
    {i \in DOMAIN file : matches(file[i], path, method)}

\* C28: when several routes match, find_route returns a route of the highest
\* class (exact > parameterized > wildcard), within a class the one with more
\* segments, and among full ties the one listed first in the file.
C28_HighestClassFirst ==
    router_last.op = "find_route" =>
        LET hits == Matching(router.file, router_last.path, router_last.method)
        IN  /\ (hits = {}) <=> (router_last.route = NoRouteFound)
            /\ \A i \in hits :
                  (\A j \in hits \ {i} : Preferred(router.file, i, j)) =>
                      router_last.route.config = router.file[i]

\* what the code does keep: the lookups of the example, with the routes
\* /a/b -> X and /a/** -> Y, both for GET
PriorityExample ==
    (/\ router_last.op = "find_route"
     /\ router.routes = Router(router.file).routes
     /\ router.file = << PlainRoute("/a/b", "X", {"GET"}),
                         PlainRoute("/a/**", "Y", {"GET"}) >>) =>
        LET found == router_last.route.config.service
            asked == << router_last.path, router_last.method >>
        IN  /\ asked = << "/a/b", "GET" >> => found = "X"
            /\ asked = << "/a/c", "GET" >> => found = "Y"
            /\ asked = << "/a", "GET" >> => found = "Y"
            /\ asked = << "/a/b", "POST" >> => router_last.route = NoRouteFound

\* what the code does keep: the order of the claim among matching routes whose
\* segment counts differ by less than five (a class is worth 50 points of
\* priority, a segment 10)
HighestClassFirstForNearbyLengths ==
    LET hits == Matching(router.file, router_last.path, router_last.method)
    IN  (/\ router_last.op = "find_route"
         /\ router.routes = Router(router.file).routes
         /\ \A i, j \in hits : Len(split(router.file[i].path))
                                  - Len(split(router.file[j].path)) < 5)
            => C28_HighestClassFirst

\* a template segment of the form {name}
IsParameter(part) == startswith(part, "{") /\ endswith(part, "}")

\* the path instantiates the parameterized template segment by segment
Instantiates(template, path) ==
    LET route_parts == split(template)
        path_parts == split(path)
    IN  /\ Len(route_parts) = Len(path_parts)
        /\ \E i \in DOMAIN route_parts : IsParameter(route_parts[i])
        /\ \A i \in DOMAIN route_parts :
              IF IsParameter(route_parts[i]) THEN path_parts[i] # ""
              ELSE path_parts[i] = route_parts[i]

\* path_params maps every {name} of the template to the segment at its position
ParamsByPosition(template, path, path_params) ==
    LET route_parts == split(template)
        path_parts == split(path)
    IN  \A i \in DOMAIN route_parts :
            IsParameter(route_parts[i]) =>
                LET name == SubSeq(route_parts[i], 2, Len(route_parts[i]) - 1)
                IN  name \in DOMAIN path_params /\ path_params[name] = path_parts[i]

\* C29: a path that instantiates a parameterized template segment by segment,
\* with an allowed method, is matched by that route, and path_params maps each
\* {name} of the template to the actual segment at the same position.
C29_TemplateInstanceMatched ==
    (/\ router_last.op = "matches"
     /\ Instantiates(router_last.route.config.path, router_last.path)
     /\ router_last.method \in router_last.route.config.methods) =>
        /\ router_last.result = TRUE
        /\ ParamsByPosition(router_last.route.config.path, router_last.path,
                            router_last.path_params)

\* what the code does keep: extract_path_params, called on such a path, maps
\* the names by position
ParamsExtractedByPosition ==
    (/\ router_last.op = "matches"
     /\ Instantiates(router_last.route.config.path, router_last.path)) =>
        ParamsByPosition(router_last.route.config.path, router_last.path,
                         router_last.path_params)

\* C30: a route whose pattern has no wildcard suffix matches a request only
\* when the path is identical to the pattern and the method is in the route's
\* method list; /projects does not match /projects/123.
C30_ExactPatternExactPath ==
    (/\ router_last.op = "matches"
     /\ ~ endswith(router_last.route.config.path, "/*")
     /\ ~ endswith(router_last.route.config.path, "/**")) =>
        (router_last.result = TRUE <=>
            /\ router_last.path = router_last.route.config.path
            /\ router_last.method \in router_last.route.config.methods)

\* what the code does keep: such a route matches the pattern itself and the
\* paths below it, and no other path
ExactPatternOrBelow ==
    (/\ router_last.op = "matches"
     /\ ~ endswith(router_last.route.config.path, "/*")
     /\ ~ endswith(router_last.route.config.path, "/**")) =>
        (router_last.result = TRUE <=>
            /\ \/ router_last.path = router_last.route.config.path
               \/ startswith(router_last.path, router_last.route.config.path \o "/")
            /\ router_last.method \in router_last.route.config.methods)

\* the complete route lists: what a successful load of a routes file gives
CompleteRouteLists == {Router(file).routes : file \in RouteFiles}

\* C31: reload_routes replaces the route list atomically: a find_route issued
\* before or after a reload sees the complete old list or the complete new
\* one, never an empty or partly loaded list, and when re-reading the file
\* fails the previous list stays in effect.
C31_ReloadAtomic ==
    /\ router.routes \in CompleteRouteLists
    /\ router_last.op = "reload_routes" =>
          router.routes = IF router_last.raised THEN router_last.before
                          ELSE Router(router.file).routes

\* what the code does keep: a reload in which nothing raises installs the
\* complete sorted list of the file
ReloadWithoutFaultComplete ==
    (router_last.op = "reload_routes" /\ ~ router_last.raised) =>
        router.routes = Router(router.file).routes

----------------------------------------------------------------------------
(* Proxy: src/app/core/proxy.py.  forward_request runs                       *)
(* circuit_breaker.call_async(retry_handler.execute_async, make_request).    *)

\* ProxyService.__init__ under the settings: no breaker yet, RetryHandler();
\* StaticServiceDiscovery holds the ServiceInstance objects, each with a
\* failure_count of 0 (an object is named by its url and the load that made it)
ProxyService(cb_enabled, r_enabled, failure_threshold, timeout_seconds, max_attempts) ==
    [circuit_breaker_enabled |-> cb_enabled,
     retry_enabled |-> r_enabled,
     failure_threshold |-> failure_threshold,
     timeout_seconds |-> timeout_seconds,
     retry_handler |-> RetryHandler(max_attempts, 0, 0, {}),
     circuit_breakers |-> << >>,
     failure_count |-> << >>,
     generation |-> 0,
     now |-> 0]

\* ProxyService._get_circuit_breaker: the stored breaker, or CircuitBreaker()
\* under the settings (one half-open call)
proxy_circuit_breaker(px, service_name) ==
    IF service_name \in DOMAIN px.circuit_breakers
    THEN px.circuit_breakers[service_name]
    ELSE CircuitBreaker(px.failure_threshold, px.timeout_seconds, 1)

\* the ServiceInstance object that discovery holds for this url
ServiceInstanceOf(px, url) == <<url, px.generation>>

\* instance.failure_count of a ServiceInstance object
instance_failure_count(px, instance) ==
    IF instance \in DOMAIN px.failure_count THEN px.failure_count[instance] ELSE 0

\* `instance.failure_count += 1`
count_failure(px, instance) ==
    update(px.failure_count, instance :> (instance_failure_count(px, instance) + 1))

\* the breaker is OPEN at time t and its cool-off has not run out
cooling_off(b, t) ==
    /\ b.state = OPEN
    /\ b.last_failure_time # NoTime
    /\ t - b.last_failure_time < b.timeout_seconds

\* no forward_request: the service and the instance of the call, its retry
\* loop, and (history) whether it found the circuit OPEN and cooling off
NoForwardCall ==
    [pc |-> "idle", service_name |-> "", instance |-> <<"", 0>>,
     retry |-> NoRetryCall, found_cooling |-> FALSE]

\* ProxyService.forward_request from its entry to the instance with this url
\* to its first await: the breaker of the service is made if there is none,
\* call_async lets the call through or raises, and a call let through begins
\* the retry loop and sends the backend request
forward_request_enter(px, service, url) ==
    LET service_name == IF service # "" THEN service ELSE "unknown"
        instance == ServiceInstanceOf(px, url)
        b0 == proxy_circuit_breaker(px, service_name)
        e == enter(b0, px.now)
        rejected == px.circuit_breaker_enabled /\ e.rejected
        b1 == IF px.circuit_breaker_enabled THEN e.cb ELSE b0
    IN  [proxy |-> [px EXCEPT
                       !.circuit_breakers = put_circuit_breaker(@, service_name, b1),
                       !.failure_count = IF rejected THEN count_failure(px, instance)
                                         ELSE @],
         call |-> [pc |-> IF rejected THEN "raised" ELSE "backend",
                   service_name |-> service_name, instance |-> instance,
                   retry |-> IF rejected THEN NoRetryCall ELSE execute_async_enter,
                   found_cooling |-> cooling_off(b0, px.now)],
         rejected |-> rejected]

\* forward_request from the moment its retry loop has moved on to q (the
\* backend has answered, or the sleep is over) to its next await or its end:
\* call_async settles the breaker when the loop has ended, and an exception
\* that comes out of it counts against the instance
forward_request_resume(px, call, q) ==
    LET b0 == proxy_circuit_breaker(px, call.service_name)
        b1 == IF px.circuit_breaker_enabled THEN settle_forward(b0, px.now, q) ELSE b0
    IN  [proxy |-> [px EXCEPT
                       !.circuit_breakers =
                           put_circuit_breaker(@, call.service_name, b1),
                       !.failure_count = IF q.pc = "raised"
                                         THEN count_failure(px, call.instance)
                                         ELSE @],
         call |-> [call EXCEPT !.retry = q,
                               !.pc = CASE q.pc = "call" -> "backend"
                                        [] OTHER -> q.pc],
         rejected |-> FALSE]

\* StaticServiceDiscovery.reload_services: the instances are made anew from
\* the file, and an object of the load before lives on only in the calls that
\* hold it
reload_services(px, held) ==
    [px EXCEPT !.generation = @ + 1,
               !.failure_count = [i \in DOMAIN @ \cap held |-> @[i]]]

\* the service of the model and its two instances
ProxyTargets == {<<"svc-a", "http://a1">>, <<"svc-a", "http://a2">>}

\* the settings of the model: failure threshold, cool-off, attempts
ProxyThresholds == {1, 2}
ProxyTimeouts == {2}
ProxyMaxAttempts == {2, 3}

\* what the backend does at an attempt
ProxyOutcomes == {Ok, "ConnectError"}

\* the calls of forward_request under way at the same time
ProxyCalls == 1..MaxProxyCalls

\* the forward_requests of a service that failed in a row
FailedInARow(service_name) ==
    IF service_name \in DOMAIN proxy_last.failed_in_a_row
    THEN proxy_last.failed_in_a_row[service_name]
    ELSE 0

ProxyInit ==
    /\ CBCIdle
    /\ DWIdle
    /\ CBIdle
    /\ RLIdle
    /\ TMIdle
    /\ GWIdle
    /\ RTIdle
    /\ LBIdle
    /\ RouterIdle
    /\ proxy \in {ProxyService(cb_enabled, r_enabled, ft, ts, m) :
                     cb_enabled \in BOOLEAN, r_enabled \in BOOLEAN,
                     ft \in ProxyThresholds, ts \in ProxyTimeouts,
                     m \in ProxyMaxAttempts}
    /\ proxy_calls = [c \in ProxyCalls |-> NoForwardCall]
    /\ proxy_last = [op |-> "init", failed_in_a_row |-> << >>]

\* what a forward_request that has ended did (history), r being the step
\* that ended it: what the step added to the breaker's failure_count and to
\* the instance's, and the breaker's state after it
Forwarded(r) ==
    [op |-> "forward_request", service_name |-> r.call.service_name,
     rejected |-> r.rejected,
     attempts |-> Len(r.call.retry.invocations),
     failed_attempts |->
         Cardinality({i \in DOMAIN r.call.retry.invocations :
                         r.call.retry.invocations[i].outcome # Ok}),
     raised |-> r.call.pc = "raised",
     found_cooling |-> r.call.found_cooling,
     breaker_failures |->
         r.proxy.circuit_breakers[r.call.service_name].failure_count
            - proxy_circuit_breaker(proxy, r.call.service_name).failure_count,
     breaker_state |-> r.proxy.circuit_breakers[r.call.service_name].state,
     breaker_changed |-> r.proxy.circuit_breakers[r.call.service_name]
                            # proxy_circuit_breaker(proxy, r.call.service_name),
     instance_failures |-> instance_failure_count(r.proxy, r.call.instance)
                              - instance_failure_count(proxy, r.call.instance),
     failed_in_a_row |->
         update(proxy_last.failed_in_a_row, r.call.service_name :>
             (IF r.call.pc = "returned" THEN 0
              ELSE IF r.rejected THEN FailedInARow(r.call.service_name)
              ELSE FailedInARow(r.call.service_name) + 1))]

\* call c of forward_request has taken the step r
ForwardStep(c, r) ==
    /\ r.call.pc = "sleep" => r.call.retry.wake <= MaxProxyTime
    /\ proxy' = r.proxy
    /\ IF r.call.pc \in {"returned", "raised"}
       THEN /\ proxy_calls' = [proxy_calls EXCEPT ![c] = NoForwardCall]
            /\ proxy_last' = Forwarded(r)
       ELSE /\ proxy_calls' = [proxy_calls EXCEPT ![c] = r.call]
            /\ UNCHANGED proxy_last
    /\ UNCHANGED notProxy

\* a forward_request to the instance with this url begins
Forward(c, service, url) ==
    /\ c = free_slot(ProxyCalls, {o \in ProxyCalls : proxy_calls[o].pc # "idle"})
    /\ instance_failure_count(proxy, ServiceInstanceOf(proxy, url)) < MaxInstanceFailures
    /\ ForwardStep(c, forward_request_enter(proxy, service, url))

\* the backend answers the request of call c
BackendAnswers(c, outcome) ==
    /\ proxy_calls[c].pc = "backend"
    /\ ForwardStep(c, forward_request_resume(proxy, proxy_calls[c],
            execute_async_answered(proxy.retry_enabled, proxy.retry_handler,
                                   proxy_calls[c].retry, outcome, proxy.now)))

\* the sleep of call c is over, and its next attempt begins
ForwardWakes(c) ==
    /\ proxy_calls[c].pc = "sleep"
    /\ proxy_calls[c].retry.wake <= proxy.now
    /\ \A o \in ProxyCalls :
          proxy_calls[o].pc = "sleep" =>
             proxy_calls[c].retry.wake <= proxy_calls[o].retry.wake
    /\ ForwardStep(c, forward_request_resume(proxy, proxy_calls[c],
            execute_async_woken(proxy.retry_handler, proxy_calls[c].retry)))

\* the services file is read again (while some instance has a failure
\* counted: at other times the new objects are as the old ones)
ReloadServices ==
    /\ proxy.generation < MaxReloads
    /\ DOMAIN proxy.failure_count # {}
    /\ proxy' = reload_services(proxy, {proxy_calls[c].instance : c \in ProxyCalls})
    /\ UNCHANGED <<proxy_calls, proxy_last>>
    /\ UNCHANGED notProxy

\* a second passes while a call sleeps or a circuit cools off (nothing else
\* reads the clock)
ProxyTick ==
    /\ proxy.now < MaxProxyTime
    /\ \/ \E c \in ProxyCalls : /\ proxy_calls[c].pc = "sleep"
                                /\ proxy.now < proxy_calls[c].retry.wake
       \/ \E service_name \in DOMAIN proxy.circuit_breakers :
             cooling_off(proxy.circuit_breakers[service_name], proxy.now)
    /\ proxy' = [proxy EXCEPT !.now = @ + 1]
    /\ UNCHANGED <<proxy_calls, proxy_last>>
    /\ UNCHANGED notProxy

ProxyNext ==
    \/ \E c \in ProxyCalls, target \in ProxyTargets : Forward(c, target[1], target[2])
    \/ \E c \in ProxyCalls, outcome \in ProxyOutcomes : BackendAnswers(c, outcome)
    \/ \E c \in ProxyCalls : ForwardWakes(c)
    \/ ReloadServices
    \/ ProxyTick

SpecProxy == ProxyInit /\ [][ProxyNext]_vars

----------------------------------------------------------------------------
(* Claims about the proxy *)

\* C32: the breaker wraps the whole retry loop: a forward_request whose backend
\* attempts all fail makes exactly max_attempts attempts and counts as exactly
\* one breaker failure; the circuit of a service is open once
\* failure_threshold forward_requests to it have failed in a row; and a
\* forward_request that finds the circuit OPEN with the cool-off not elapsed
\* makes no backend attempt.  (Settings: breaker and retries enabled.)
C32_BreakerWrapsRetry ==
    (proxy.circuit_breaker_enabled /\ proxy.retry_enabled) =>
        /\ (proxy_last.op = "forward_request" /\ proxy_last.raised
                /\ ~ proxy_last.rejected) =>
              /\ proxy_last.attempts = proxy.retry_handler.max_attempts
              /\ proxy_last.failed_attempts = proxy_last.attempts
              /\ proxy_last.breaker_failures = 1
              /\ FailedInARow(proxy_last.service_name) >= proxy.failure_threshold =>
                    proxy_last.breaker_state = OPEN
        /\ proxy_last.op = "forward_request" =>
              /\ proxy_last.found_cooling <=> proxy_last.rejected
              /\ proxy_last.rejected =>
                    proxy_last.attempts = 0 /\ ~ proxy_last.breaker_changed
        /\ \A service_name \in DOMAIN proxy.circuit_breakers :
              /\ FailedInARow(service_name) >= proxy.failure_threshold =>
                    proxy.circuit_breakers[service_name].state # CLOSED
              /\ proxy.circuit_breakers[service_name].state = CLOSED =>
                    proxy.circuit_breakers[service_name].failure_count
                        = FailedInARow(service_name)

\* two forward_requests of two failed attempts each opened a circuit of
\* threshold two, and the next one was rejected without an attempt
C32_Witness ==
    /\ proxy_last.op = "forward_request"
    /\ proxy.circuit_breaker_enabled /\ proxy.retry_enabled
    /\ proxy.failure_threshold = 2
    /\ proxy.retry_handler.max_attempts = 2
    /\ proxy_last.rejected
    /\ proxy_last.attempts = 0
    /\ FailedInARow(proxy_last.service_name) = 2
    /\ proxy.circuit_breakers[proxy_last.service_name].state = OPEN

\* C33: instance.failure_count changes only on transport errors: it goes up by
\* one in a forward_request in which the backend attempts to that instance
\* failed, and stays as it was after a successful forward and after a request
\* rejected without any backend attempt (circuit OPEN).
C33_FailureCountOnTransportErrors ==
    proxy_last.op = "forward_request" =>
        proxy_last.instance_failures =
            IF proxy_last.raised /\ proxy_last.failed_attempts > 0 THEN 1 ELSE 0

\* what the code does keep: the count goes up by one whenever forward_request
\* raises, whatever raised, and only then
FailureCountOnEveryRaise ==
    proxy_last.op = "forward_request" =>
        proxy_last.instance_failures = IF proxy_last.raised THEN 1 ELSE 0

----------------------------------------------------------------------------
(* Claims about the balancer the handler uses *)

\* the handler's selection went to position i of a list of healthy instances
SelectedAt(last, i) ==
    /\ last.op = "select"
    /\ i \in DOMAIN last.instances
    /\ HealthyAt(last.instances) = DOMAIN last.instances
    /\ Len(last.instances) >= 2
    /\ last.selected = last.instances[i]

\* C34: the balancer's counters persist across requests: under round robin,
\* with N >= 2 healthy instances, consecutive gateway requests to a service are
\* forwarded to successive instances, not always to the same one.
C34_SuccessiveInstances ==
    [][\A i \in 1..3 :
          (/\ load_balancer.strategy = "round_robin"
           /\ SelectedAt(lb_last, i)
           /\ lb_last'.op = "select"
           /\ lb_last'.service_name = lb_last.service_name
           /\ lb_last'.instances = lb_last.instances)
              => lb_last'.selected = lb_last.instances[(i % Len(lb_last.instances)) + 1]]_vars

\* ---------------------------------------------------------------------------
\* Durable writes: RateLimitMiddleware._store_rate_limit_record_async with
\* RateLimitStorage.store_rate_limit_record, and
\* AuditLogger._store_audit_log_async
\* ---------------------------------------------------------------------------

\* the write of an owner from one await to the next
durable_write_step(owner, w, fault) ==
    IF owner = "AuditLogger" THEN AuditLogger_step(w, fault)
    ELSE RateLimitStorage_step(w, fault)

\* AuditLogger(): the set of background tasks exists from construction
AuditLogger == [background_tasks |-> {}]

\* RateLimitMiddleware(): the set of background tasks exists from construction
RateLimitMiddleware(mysql_async) ==
    [rate_limit_mysql_async |-> mysql_async, background_tasks |-> {}]

\* asyncio.create_task: the write has not run yet
PendingTask(owner) ==
    [owner |-> owner, task |-> TRUE, w |-> NewWrite(Nil), callback |-> "none"]

\* `await store_record_with_error_handling()`
AwaitedWrite(owner) ==
    [owner |-> owner, task |-> FALSE, w |-> NewWrite(Nil), callback |-> "none"]

DWInit ==
    /\ CBCIdle
    /\ CBIdle
    /\ RLIdle
    /\ TMIdle
    /\ GWIdle
    /\ RTIdle
    /\ LBIdle
    /\ RouterIdle
    /\ ProxyIdle
    /\ writers \in {[RateLimitMiddleware |-> RateLimitMiddleware(mysql_async),
                     AuditLogger |-> AuditLogger] : mysql_async \in BOOLEAN}
    /\ writes = << >>
    /\ writes_last = [op |-> "init"]

\* _store_audit_log_async: create the task, add it to the set, register the
\* done callback
StoreAuditLog ==
    /\ Len(writes) < MaxWrites
    /\ writes' = Append(writes, PendingTask("AuditLogger"))
    /\ writers' = [writers EXCEPT !.AuditLogger.background_tasks =
                                       @ \cup {Len(writes) + 1}]
    /\ writes_last' = [op |-> "create_task", n |-> Len(writes) + 1]
    /\ UNCHANGED notDW

\* _store_rate_limit_record_async: a background task when
\* rate_limit_mysql_async is set, else the write is awaited
StoreRateLimitRecord ==
    /\ Len(writes) < MaxWrites
    /\ IF writers.RateLimitMiddleware.rate_limit_mysql_async
       THEN /\ writes' = Append(writes, PendingTask("RateLimitMiddleware"))
            /\ writers' = [writers EXCEPT !.RateLimitMiddleware.background_tasks =
                                               @ \cup {Len(writes) + 1}]
            /\ writes_last' = [op |-> "create_task", n |-> Len(writes) + 1]
       ELSE /\ writes' = Append(writes, AwaitedWrite("RateLimitMiddleware"))
            /\ UNCHANGED writers
            /\ writes_last' = [op |-> "await", n |-> Len(writes) + 1]
    /\ UNCHANGED notDW

\* write n resumes from its await; when a background task has ended, the
\* event loop schedules its done callback
WriteStep(n, fault) ==
    LET w == durable_write_step(writes[n].owner, writes[n].w, fault)
    IN  /\ n \in DOMAIN writes
        /\ writes[n].w.pc # "done"
        /\ fault \in faults_at(writes[n].w.pc)
        /\ writes' = [writes EXCEPT ![n].w = w,
                                    ![n].callback =
                                        IF w.pc = "done" /\ writes[n].task
                                        THEN "scheduled" ELSE @]
        /\ writes_last' = [op |-> "write_step", n |-> n]
        /\ UNCHANGED writers
        /\ UNCHANGED notDW

\* the event loop runs the done callback of task n: remove_task of the rate
\* limiter, set.discard of the audit logger
DoneCallback(n) ==
    /\ n \in DOMAIN writes
    /\ writes[n].callback = "scheduled"
    /\ writes' = [writes EXCEPT ![n].callback = "ran"]
    /\ writers' = [writers EXCEPT ![writes[n].owner].background_tasks = discard(@, n)]
    /\ writes_last' = [op |-> "done_callback", n |-> n]
    /\ UNCHANGED notDW

DWNext ==
    \/ StoreAuditLog
    \/ StoreRateLimitRecord
    \/ \E n \in 1..MaxWrites, fault \in WriteFaults : WriteStep(n, fault)
    \/ \E n \in 1..MaxWrites : DoneCallback(n)

SpecDW == DWInit /\ [][DWNext]_vars

\* the owners of background tasks
DurableOwners == {"RateLimitMiddleware", "AuditLogger"}

\* the background tasks of an owner
TasksOf(owner) == {n \in DOMAIN writes : writes[n].owner = owner /\ writes[n].task}

\* C35: every asynchronous durable write, of the rate limiter or of the audit
\* logger, is in its owner's set of background tasks from its creation until
\* it completes, and the done callback that the event loop runs on its
\* completion, with success or with an error, takes it out; when the
\* callbacks of all tasks have run the sets are empty
C35_TasksTrackedUntilDone ==
    \A owner \in DurableOwners :
        /\ writers[owner].background_tasks \subseteq TasksOf(owner)
        /\ \A n \in TasksOf(owner) :
              /\ writes[n].w.pc # "done" => n \in writers[owner].background_tasks
              /\ writes[n].w.pc # "done" <=> writes[n].callback = "none"
              /\ writes[n].callback = "ran" => n \notin writers[owner].background_tasks

\* both owners have had a task that failed and whose callback has run; a
\* third task has ended, is still in the set of its owner, and its callback is
\* scheduled
C35_Witness ==
    /\ Len(writes) = 3
    /\ writes[1].owner = "RateLimitMiddleware" /\ writes[1].callback = "ran"
    /\ writes[1].w.outcome = "exception"
    /\ writes[2].owner = "AuditLogger" /\ writes[2].callback = "ran"
    /\ writes[2].w.outcome = "exception"
    /\ writes[3].callback = "scheduled"
    /\ writers[writes[3].owner].background_tasks = {3}

\* C36: every durable write acquires one connection and has closed it when
\* it ends, whether the commit succeeded, the cursor could not be made, or
\* the execute or the commit failed, for both writers
C36_ConnectionClosedOnEveryPath ==
    \A n \in DOMAIN writes :
        writes[n].w.pc = "done" /\ writes[n].w.outcome # "connection_failure"
            => writes[n].w.connection = "closed"

\* the rate-limit writer closes its connection on every path, and the audit
\* writer after a commit that succeeded
ConnectionClosedByRateLimitWriter ==
    \A n \in DOMAIN writes :
        /\ writes[n].w.pc = "done"
        /\ writes[n].w.outcome # "connection_failure"
        /\ writes[n].owner = "RateLimitMiddleware" \/ writes[n].w.outcome = "success"
        => writes[n].w.connection = "closed"

\* ---------------------------------------------------------------------------
\* Concurrent invocations of CircuitBreaker.call_async on one breaker: each is
\* suspended at `await func(*args, **kwargs)` while others enter
\* ---------------------------------------------------------------------------

CBConcurrentInit ==
    /\ RLIdle
    /\ TMIdle
    /\ GWIdle
    /\ RTIdle
    /\ LBIdle
    /\ RouterIdle
    /\ ProxyIdle
    /\ DWIdle
    /\ circuit_breaker_enabled = TRUE
    /\ \E ft \in 1..MaxThreshold, ts \in 1..MaxTimeout, hm \in 1..MaxHalfOpen :
          cb = CircuitBreaker(ft, ts, hm)
    /\ now = 0
    /\ in_flight = 0
    /\ consecutive_failures = 0
    /\ episode_successes = 0
    /\ last_event = [op |-> "init", result |-> "none", handled_in |-> "none",
                     before |-> cb, at |-> 0, in_flight |-> 0]
    /\ half_open_admitted = 0

\* call_async up to `await func(...)`: the guard on OPEN, then func is called
ConcurrentCallBegin ==
    LET e == enter(cb, now)
    IN  /\ in_flight < MaxConcurrentCalls
        /\ half_open_admitted <= MaxHalfOpen
        /\ cb' = e.cb
        /\ in_flight' = (IF e.rejected THEN in_flight ELSE in_flight + 1)
        /\ last_event' =
              Event("call_async", IF e.rejected THEN "rejected" ELSE "admitted", "none")
        /\ Observe(cb, e.cb, "none")
        /\ half_open_admitted' =
              (IF e.rejected \/ e.cb.state # HALF_OPEN THEN half_open_admitted
               ELSE IF cb.state = OPEN THEN 1
               ELSE half_open_admitted + 1)
        /\ UNCHANGED <<circuit_breaker_enabled, now>>
        /\ UNCHANGED notCBC

\* call_async from the completion of `await func(...)`
ConcurrentCallEnd(outcome) ==
    /\ in_flight > 0
    /\ in_flight' = in_flight - 1
    /\ cb' = settle(cb, now, outcome)
    /\ last_event' = Event("call_async_end", outcome, cb.state)
    /\ Observe(cb, cb', outcome)
    /\ half_open_admitted' = (IF cb'.state = HALF_OPEN THEN half_open_admitted ELSE 0)
    /\ UNCHANGED <<circuit_breaker_enabled, now>>
    /\ UNCHANGED notCBC

CBConcurrentNext ==
    \/ ConcurrentCallBegin
    \/ \E outcome \in {"success", "failure", "cancelled"} : ConcurrentCallEnd(outcome)
    \/ Tick

SpecCBConcurrent == CBConcurrentInit /\ [][CBConcurrentNext]_vars

\* C38: while the breaker is HALF_OPEN, at most half_open_max_calls calls
\* have been admitted to the wrapped function since it became HALF_OPEN,
\* calls in flight included, however concurrent invocations interleave
C38_HalfOpenAdmissionsBounded ==
    cb.state = HALF_OPEN => half_open_admitted <= cb.half_open_max_calls

\* the successes the breaker has counted while HALF_OPEN stay below
\* half_open_max_calls, which closes the circuit
HalfOpenSuccessesBounded ==
    cb.state = HALF_OPEN => cb.success_count < cb.half_open_max_calls

\* ---------------------------------------------------------------------------
\* Concurrent requests to POST /auth/refresh and POST /auth/revoke
\* (src/app/routers/auth.py): a request is suspended at each command it
\* awaits while others run
\* ---------------------------------------------------------------------------

\* the requests that run at the same time
AuthRequestIds == TMCallers

\* the token of the login, which every request presents
LoginToken == "t1"

\* the refresh tokens the auth-service issues
SuccessorTokens == {"t2", "t3"}

\* the answers of the auth-service to a refresh
SuccessorResponses ==
    {AuthResponse("answer", 200, token, AccessToken, "integer") :
        token \in SuccessorTokens}
       \cup {AuthResponse("answer", 401, NoToken, NoToken, "absent"),
             AuthResponse("raise", 0, NoToken, NoToken, "absent")}

\* the fast KV after the login has stored its token
LoginStored(family) ==
    run_alone(EmptyStore, 0,
              StoreCall("u1", LoginToken, 7 * SecondsPerDay, family, NoToken), 0)

\* the login token has been stored, with a family or without
AuthConcurrentInit ==
    /\ CBIdle
    /\ RLIdle
    /\ GWIdle
    /\ RTIdle
    /\ LBIdle
    /\ RouterIdle
    /\ ProxyIdle
    /\ DWIdle
    /\ CBCIdle
    /\ jwt_refresh_rotation_enabled \in BOOLEAN
    /\ jwt_refresh_expiration_days = 7
    /\ \E family \in Families \cup {NoFamily} :
          /\ redis_tm = LoginStored(family).kv
          /\ uuid_calls = LoginStored(family).uuids
    /\ tm_time = 0
    /\ revoked_once = {}
    /\ tm_last = [op |-> "init"]
    /\ tm_calls = [r \in AuthRequestIds |-> NoCall]

\* request r to an endpoint is received and sends the GET of
\* validate_refresh_token
ValidateRequest(r, endpoint) == BeginCall(r, EndpointCall(endpoint, LoginToken))

\* the auth-service answers the refresh r
AuthServiceAnswers(r, response) ==
    /\ tm_calls[r].pc = "post"
    /\ ResumeCall(r, FALSE, <<"http://auth">>, response, TRUE)

\* the fast KV answers the command request r waits for
CommandAnswered(r) ==
    /\ tm_calls[r].pc # "post"
    /\ ResumeCall(r, FALSE, <<"http://auth">>, NoResponse, TRUE)

AuthConcurrentNext ==
    \/ \E r \in AuthRequestIds, endpoint \in {"POST /auth/refresh", "POST /auth/revoke"} :
          ValidateRequest(r, endpoint)
    \/ \E r \in AuthRequestIds, response \in SuccessorResponses :
          AuthServiceAnswers(r, response)
    \/ \E r \in AuthRequestIds : CommandAnswered(r)

SpecAuthConcurrent == AuthConcurrentInit /\ [][AuthConcurrentNext]_vars

\* the requests to an endpoint that have been answered
AnsweredBy(endpoint) ==
    {r \in AuthRequestIds : tm_calls[r].op = endpoint /\ tm_calls[r].pc = "done"}

\* the refreshes that were answered 200 with a successor token, which they
\* stored
GotSuccessor ==
    {r \in AnsweredBy("POST /auth/refresh") :
        /\ tm_calls[r].status = 200
        /\ tm_calls[r].ok
        /\ tm_calls[r].refresh_token \in SuccessorTokens}

\* C39: with rotation enabled, of two concurrent POST /auth/refresh requests
\* that present the same valid token at most one obtains and stores a
\* successor token, however they interleave
C39_RefreshSingleUse ==
    jwt_refresh_rotation_enabled => Cardinality(GotSuccessor) <= 1

\* with rotation enabled the token a refresh has rotated is no longer valid,
\* and a refresh validated after that is answered 401
RotatedTokenInvalid ==
    jwt_refresh_rotation_enabled /\ GotSuccessor # {}
        => /\ validate_refresh_token(redis_tm, LoginToken, FALSE) = NullRecord
           /\ \A r \in AnsweredBy("POST /auth/refresh") :
                 invalid_token(tm_calls[r].data) => tm_calls[r].status = 401

\* C40: two concurrent POST /auth/revoke requests for the same valid token
\* are both answered 200, never 500, and the token is invalid afterwards
C40_ConcurrentRevokeIdempotent ==
    (\A r \in AuthRequestIds : tm_calls[r].op # "POST /auth/refresh")
        => \A r \in AnsweredBy("POST /auth/revoke") :
              /\ tm_calls[r].status = 200
              /\ validate_refresh_token(redis_tm, LoginToken, FALSE) = NullRecord

\* once a revocation has been answered the token is invalid, whatever the
\* status of the answer
RevokedTokenInvalid ==
    AnsweredBy("POST /auth/revoke") # {}
        => validate_refresh_token(redis_tm, LoginToken, FALSE) = NullRecord

====
